---- MODULE Spec2Model ----
(***************************************************************************)
(* Element interaction engine of the Chrome controller                     *)
(* (src/server/chrome-controller.js, src/server/tools/elements.js):        *)
(* withTab, discoverBestSelector, checkElementExists, waitForElement,      *)
(* getElementCoordinates, clickElement, typeText, elementExists and the    *)
(* click_element / type_text / element_exists tool handlers, run against a *)
(* page whose DOM the page itself may change between protocol round trips. *)
(***************************************************************************)
EXTENDS Integers, Sequences, FiniteSets, TLC

(***************************************************************************)
(* Strings.  Len, \o and SubSeq apply to strings as they do to sequences.  *)
(***************************************************************************)
UpperCase ==
  "ABCDEFGHIJKLMNOPQRSTUVWXYZ"

LowerCase ==
  "abcdefghijklmnopqrstuvwxyz"

Letters ==
  {SubSeq(UpperCase, i, i) : i \in 1..Len(UpperCase)}
    \cup {SubSeq(LowerCase, i, i) : i \in 1..Len(LowerCase)}

LowerOf ==
  [c \in {SubSeq(UpperCase, i, i) : i \in 1..Len(UpperCase)} |->
     LET k == CHOOSE i \in 1..Len(UpperCase) : SubSeq(UpperCase, i, i) = c
     IN SubSeq(LowerCase, k, k)]

toLowerCaseChar(c) ==
  IF c \in DOMAIN LowerOf THEN LowerOf[c] ELSE c

\* the characters of s from the k-th on, each in lower case
RECURSIVE lowerFrom(_, _)
lowerFrom(s, k) ==
  IF k > Len(s) THEN ""
  ELSE toLowerCaseChar(SubSeq(s, k, k)) \o lowerFrom(s, k + 1)

\* String.prototype.toLowerCase
toLowerCase(s) ==
  lowerFrom(s, 1)

\* String.prototype.repeat
RECURSIVE repeat(_, _)
repeat(s, n) ==
  IF n = 0 THEN ""
  ELSE IF n % 2 = 0 THEN LET half == repeat(s, n \div 2) IN half \o half
  ELSE s \o repeat(s, n - 1)

\* String.prototype.includes
includes(s, sub) ==
  \E i \in 0..(Len(s) - Len(sub)) : SubSeq(s, i + 1, i + Len(sub)) = sub

\* String.prototype.startsWith
startsWith(s, prefix) ==
  /\ Len(s) >= Len(prefix)
  /\ SubSeq(s, 1, Len(prefix)) = prefix

\* String.prototype.endsWith
endsWith(s, suffix) ==
  /\ Len(s) >= Len(suffix)
  /\ SubSeq(s, Len(s) - Len(suffix) + 1, Len(s)) = suffix

\* value.toLowerCase().includes(needle) where needle is already lower case
includesLower(s, needleLower) ==
  includes(toLowerCase(s), needleLower)

\* the CSS attribute test [attr*="needle" i]; a missing attribute ("") never matches
attrContainsI(attrValue, needle) ==
  /\ attrValue # ""
  /\ includes(toLowerCase(attrValue), toLowerCase(needle))

(***************************************************************************)
(* The page.  A document is the sequence of its element nodes in document  *)
(* order.  A node with display none has an empty bounding rectangle.       *)
(***************************************************************************)
BaseNode ==
  [nid |-> 0, tag |-> "div", type |-> "", id |-> "", cls |-> <<>>, name |-> "",
   placeholder |-> "", ariaLabel |-> "", title |-> "", role |-> "", href |-> FALSE,
   valueAttr |-> "", text |-> "", value |-> "", parent |-> "body",
   display |-> "block", visibility |-> "visible", opacity |-> "1",
   left |-> 0, top |-> 0, width |-> 0, height |-> 0]

\* <form><button type="submit" class="btn">Go</button></form>
SubmitButton ==
  [BaseNode EXCEPT !.nid = 1, !.tag = "button", !.type = "submit", !.cls = <<"btn">>,
                   !.text = "Go", !.parent = "form",
                   !.left = 10, !.top = 40, !.width = 80, !.height = 20]

\* the same control, rendered a second time and hidden with display:none
HiddenSubmitButton ==
  [SubmitButton EXCEPT !.nid = 2, !.display = "none", !.top = 70]

\* <input type="email" id="em" value="ab">
EmailInput ==
  [BaseNode EXCEPT !.nid = 3, !.tag = "input", !.type = "email", !.id = "em",
                   !.value = "ab",
                   !.left = 10, !.top = 10, !.width = 101, !.height = 21]

\* <form><input type="text" name="q" placeholder="Search here"></form>
TextInput ==
  [BaseNode EXCEPT !.nid = 4, !.tag = "input", !.type = "text", !.name = "q",
                   !.placeholder = "Search here", !.parent = "form",
                   !.left = 10, !.top = 100, !.width = 100, !.height = 20]

\* <a class="primary" aria-label="Next page" href="/2">&raquo;</a>
NextLink ==
  [BaseNode EXCEPT !.nid = 5, !.tag = "a", !.cls = <<"primary">>, !.ariaLabel = "Next page",
                   !.href = TRUE,
                   !.left = 200, !.top = 10, !.width = 30, !.height = 20]

\* <form><button type="button" class="btn">Cancel</button> ... </form>
CancelButton ==
  [SubmitButton EXCEPT !.nid = 6, !.type = "button", !.text = "Cancel", !.top = 70]

\* <input placeholder="Go on">: no type attribute, so its type property is "text"
PlainInput ==
  [BaseNode EXCEPT !.nid = 7, !.tag = "input", !.placeholder = "Go on",
                   !.left = 10, !.top = 130, !.width = 100, !.height = 20]

Documents ==
  { <<>>,
    <<PlainInput>>,
    <<CancelButton, SubmitButton>>,
    <<SubmitButton>>,
    <<EmailInput>>,
    <<HiddenSubmitButton, SubmitButton>>,
    <<TextInput, SubmitButton>>,
    <<NextLink, SubmitButton>>,
    <<TextInput, EmailInput>>,
    <<[EmailInput EXCEPT !.display = "none"]>> }

\* element.getBoundingClientRect()
getBoundingClientRect(n) ==
  IF n.display = "none"
  THEN [left |-> 0, top |-> 0, width |-> 0, height |-> 0]
  ELSE [left |-> n.left, top |-> n.top, width |-> n.width, height |-> n.height]

\* the visibility test shared by checkElementExists, waitForElement and elementExists
isVisible(n) ==
  /\ getBoundingClientRect(n).width > 0
  /\ getBoundingClientRect(n).height > 0
  /\ n.display # "none"
  /\ n.visibility # "hidden"
  /\ n.opacity # "0"

hasClass(n, c) ==
  \E k \in 1..Len(n.cls) : n.cls[k] = c

\* :last-of-type / :first-of-type among the children of the same parent
lastOfType(document, i) ==
  \A j \in (i + 1)..Len(document) :
    ~(document[j].parent = document[i].parent /\ document[j].tag = document[i].tag)

firstOfType(document, i) ==
  \A j \in 1..(i - 1) :
    ~(document[j].parent = document[i].parent /\ document[j].tag = document[i].tag)

isLetters(s) ==
  \A k \in 1..Len(s) : SubSeq(s, k, k) \in Letters

\* the end of the attribute selectors built around a hint
builtSuffix ==
  "\" i]"

\* sel is prefix + needle + '" i]', the shape of the selectors built around a hint
isBuilt(sel, prefix) ==
  /\ Len(sel) >= Len(prefix) + Len(builtSuffix)
  /\ startsWith(sel, prefix)
  /\ endsWith(sel, builtSuffix)

builtNeedle(sel, prefix) ==
  SubSeq(sel, Len(prefix) + 1, Len(sel) - Len(builtSuffix))

\* what the page's selector engine rejects with a SyntaxError
validCSS(sel) ==
  sel \notin {"", "user@example.com field", "#em[", "submit javascript:", "#em<script"}

\* element.matches(sel) for node i of the document
matches(document, i, sel) ==
  LET n == document[i]
      rest == SubSeq(sel, 2, Len(sel)) IN
  CASE ~validCSS(sel) -> FALSE
    \* tag, #id and .class selectors
    [] isLetters(sel) -> n.tag = toLowerCase(sel)
    [] startsWith(sel, "#") /\ Len(sel) > 1 /\ isLetters(rest) -> n.id = rest
    [] startsWith(sel, ".") /\ Len(sel) > 1 /\ isLetters(rest) -> hasClass(n, rest)
    \* the attribute selectors discoverBestSelector builds around the hint
    [] isBuilt(sel, "*[aria-label*=\"") ->
         attrContainsI(n.ariaLabel, builtNeedle(sel, "*[aria-label*=\""))
    [] isBuilt(sel, "*[title*=\"") ->
         attrContainsI(n.title, builtNeedle(sel, "*[title*=\""))
    [] isBuilt(sel, "input[placeholder*=\"") ->
         n.tag = "input" /\ attrContainsI(n.placeholder, builtNeedle(sel, "input[placeholder*=\""))
    \* literal selectors of callers
    [] sel = "input.missing" -> n.tag = "input" /\ hasClass(n, "missing")
    [] sel = "form > button" -> n.tag = "button" /\ n.parent = "form"
    [] sel = "button:last-of-type" -> n.tag = "button" /\ lastOfType(document, i)
    [] sel = "input[name=\"q\"]" -> n.tag = "input" /\ n.name = "q"
    \* SELECTOR_PATTERNS.submit
    [] sel = "button[type=\"submit\"]" -> n.tag = "button" /\ n.type = "submit"
    [] sel = "input[type=\"submit\"]" -> n.tag = "input" /\ n.type = "submit"
    [] sel = "button[value*=\"submit\" i]" ->
         n.tag = "button" /\ attrContainsI(n.valueAttr, "submit")
    [] sel = "input[value*=\"submit\" i]" ->
         n.tag = "input" /\ attrContainsI(n.valueAttr, "submit")
    [] sel = "button[innerText*=\"submit\" i]" -> FALSE
    [] sel = "button[textContent*=\"submit\" i]" -> FALSE
    [] sel = "*[role=\"button\"][aria-label*=\"submit\" i]" ->
         n.role = "button" /\ attrContainsI(n.ariaLabel, "submit")
    [] sel = "button.submit" -> n.tag = "button" /\ hasClass(n, "submit")
    [] sel = "button.btn-submit" -> n.tag = "button" /\ hasClass(n, "btn-submit")
    [] sel = "button.submit-btn" -> n.tag = "button" /\ hasClass(n, "submit-btn")
    [] sel = "button#submit" -> n.tag = "button" /\ n.id = "submit"
    [] sel = "form button:last-of-type" ->
         n.tag = "button" /\ n.parent = "form" /\ lastOfType(document, i)
    [] sel = "form button.btn-primary" ->
         n.tag = "button" /\ n.parent = "form" /\ hasClass(n, "btn-primary")
    [] sel = "form button.btn" -> n.tag = "button" /\ n.parent = "form" /\ hasClass(n, "btn")
    [] sel = "form button" -> n.tag = "button" /\ n.parent = "form"
    \* SELECTOR_PATTERNS.search
    [] sel = "input[type=\"search\"]" -> n.tag = "input" /\ n.type = "search"
    [] sel = "input[name*=\"search\" i]" -> n.tag = "input" /\ attrContainsI(n.name, "search")
    [] sel = "input[placeholder*=\"search\" i]" ->
         n.tag = "input" /\ attrContainsI(n.placeholder, "search")
    [] sel = "input[aria-label*=\"search\" i]" ->
         n.tag = "input" /\ attrContainsI(n.ariaLabel, "search")
    [] sel = "*[role=\"searchbox\"]" -> n.role = "searchbox"
    [] sel = "input.search" -> n.tag = "input" /\ hasClass(n, "search")
    [] sel = "input#search" -> n.tag = "input" /\ n.id = "search"
    [] sel = "form input[type=\"text\"]:first-of-type" ->
         n.tag = "input" /\ n.parent = "form" /\ n.type = "text" /\ firstOfType(document, i)
    \* SELECTOR_PATTERNS.login
    [] sel = "input[type=\"email\"]" -> n.tag = "input" /\ n.type = "email"
    [] sel = "input[name*=\"email\" i]" -> n.tag = "input" /\ attrContainsI(n.name, "email")
    [] sel = "input[name*=\"user\" i]" -> n.tag = "input" /\ attrContainsI(n.name, "user")
    [] sel = "input[name*=\"login\" i]" -> n.tag = "input" /\ attrContainsI(n.name, "login")
    [] sel = "input[placeholder*=\"email\" i]" ->
         n.tag = "input" /\ attrContainsI(n.placeholder, "email")
    [] sel = "input[placeholder*=\"username\" i]" ->
         n.tag = "input" /\ attrContainsI(n.placeholder, "username")
    [] sel = "input[aria-label*=\"email\" i]" ->
         n.tag = "input" /\ attrContainsI(n.ariaLabel, "email")
    [] sel = "input#email" -> n.tag = "input" /\ n.id = "email"
    [] sel = "input#username" -> n.tag = "input" /\ n.id = "username"
    [] sel = "input.email" -> n.tag = "input" /\ hasClass(n, "email")
    [] sel = "input.username" -> n.tag = "input" /\ hasClass(n, "username")
    \* SELECTOR_PATTERNS.password
    [] sel = "input[type=\"password\"]" -> n.tag = "input" /\ n.type = "password"
    [] sel = "input[name*=\"pass\" i]" -> n.tag = "input" /\ attrContainsI(n.name, "pass")
    [] sel = "input[placeholder*=\"password\" i]" ->
         n.tag = "input" /\ attrContainsI(n.placeholder, "password")
    [] sel = "input[aria-label*=\"password\" i]" ->
         n.tag = "input" /\ attrContainsI(n.ariaLabel, "password")
    [] sel = "input#password" -> n.tag = "input" /\ n.id = "password"
    [] sel = "input.password" -> n.tag = "input" /\ hasClass(n, "password")
    \* SELECTOR_PATTERNS.button
    [] sel = "a.btn" -> n.tag = "a" /\ hasClass(n, "btn")
    [] sel = "a.button" -> n.tag = "a" /\ hasClass(n, "button")
    [] sel = "*[role=\"button\"]" -> n.role = "button"
    [] sel = "input[type=\"button\"]" -> n.tag = "input" /\ n.type = "button"
    \* SELECTOR_PATTERNS.link
    [] sel = "a[href]" -> n.tag = "a" /\ n.href
    [] sel = "*[role=\"link\"]" -> n.role = "link"
    \* SELECTOR_PATTERNS.input
    [] sel = "input[type=\"text\"]" -> n.tag = "input" /\ n.type = "text"
    [] sel = "input[type=\"tel\"]" -> n.tag = "input" /\ n.type = "tel"
    [] sel = "input[type=\"url\"]" -> n.tag = "input" /\ n.type = "url"
    [] sel = "input:not([type=\"hidden\"]):not([type=\"submit\"]):not([type=\"button\"])" ->
         n.tag = "input" /\ n.type \notin {"hidden", "submit", "button"}
    [] sel = "textarea" -> n.tag = "textarea"
    \* a hint used as it stands: a button inside a <search> element
    [] sel = "search button" -> n.tag = "button" /\ n.parent = "search"

\* indices of the nodes sel selects, in document order (document.querySelectorAll)
querySelectorAll(document, sel) ==
  {i \in 1..Len(document) : matches(document, i, sel)}

\* least index of a set of indices, 0 when it is empty
firstOrZero(S) ==
  IF S = {} THEN 0 ELSE CHOOSE i \in S : \A j \in S : i <= j

\* index of the first node sel selects, 0 for null (document.querySelector)
querySelector(document, sel) ==
  firstOrZero(querySelectorAll(document, sel))

(***************************************************************************)
(* Selector resolution: discoverBestSelector and checkElementExists.       *)
(***************************************************************************)
SELECTOR_PATTERNS(category) ==
  CASE category = "submit" ->
         << "button[type=\"submit\"]", "input[type=\"submit\"]",
            "button[value*=\"submit\" i]", "input[value*=\"submit\" i]",
            "button[innerText*=\"submit\" i]", "button[textContent*=\"submit\" i]",
            "*[role=\"button\"][aria-label*=\"submit\" i]",
            "button.submit", "button.btn-submit", "button.submit-btn", "button#submit",
            "form button:last-of-type", "form button.btn-primary", "form button.btn",
            "form button" >>
    [] category = "search" ->
         << "input[type=\"search\"]", "input[name*=\"search\" i]",
            "input[placeholder*=\"search\" i]", "input[aria-label*=\"search\" i]",
            "*[role=\"searchbox\"]", "input.search", "input#search",
            "form input[type=\"text\"]:first-of-type" >>
    [] category = "login" ->
         << "input[type=\"email\"]", "input[name*=\"email\" i]", "input[name*=\"user\" i]",
            "input[name*=\"login\" i]", "input[placeholder*=\"email\" i]",
            "input[placeholder*=\"username\" i]", "input[aria-label*=\"email\" i]",
            "input#email", "input#username", "input.email", "input.username" >>
    [] category = "password" ->
         << "input[type=\"password\"]", "input[name*=\"pass\" i]",
            "input[placeholder*=\"password\" i]", "input[aria-label*=\"password\" i]",
            "input#password", "input.password" >>
    [] category = "button" ->
         << "button", "a.btn", "a.button", "*[role=\"button\"]", "input[type=\"button\"]" >>
    [] category = "link" ->
         << "a[href]", "*[role=\"link\"]" >>
    [] category = "input" ->
         << "input[type=\"text\"]", "input[type=\"email\"]", "input[type=\"tel\"]",
            "input[type=\"url\"]",
            "input:not([type=\"hidden\"]):not([type=\"submit\"]):not([type=\"button\"])",
            "textarea" >>
    [] category = "none" -> <<>>

\* checkElementExists without its visibility test
checkElementExists_anyNode(document, selector) ==
  /\ validCSS(selector)
  /\ querySelector(document, selector) # 0

\* the in-page check of checkElementExists: the first node the selector selects
\* exists and is visible; an exception of the evaluated script gives false
checkElementExists(document, selector) ==
  /\ validCSS(selector)
  /\ LET element == querySelector(document, selector)
     IN element # 0 /\ isVisible(document[element])

\* the test of line 416: the hint "looks like a CSS selector already"
looksLikeCss(selectorHint) ==
  /\ selectorHint # ""
  /\ \/ includes(selectorHint, ".")
     \/ includes(selectorHint, "#")
     \/ includes(selectorHint, "[")
     \/ includes(selectorHint, ":")

\* the chain with its tests in the opposite order
classify_reversed(selectorHint) ==
  LET hintLower == toLowerCase(selectorHint) IN
  CASE includes(hintLower, "input") \/ includes(hintLower, "field")
         \/ includes(hintLower, "text") -> "input"
    [] includes(hintLower, "link") -> "link"
    [] includes(hintLower, "button") \/ includes(hintLower, "btn")
         \/ includes(hintLower, "click") -> "button"
    [] includes(hintLower, "password") \/ includes(hintLower, "pass") -> "password"
    [] includes(hintLower, "login") \/ includes(hintLower, "email")
         \/ includes(hintLower, "username") -> "login"
    [] includes(hintLower, "search") \/ includes(hintLower, "find") -> "search"
    [] includes(hintLower, "submit") \/ includes(hintLower, "send")
         \/ includes(hintLower, "confirm") -> "submit"
    [] OTHER -> "none"

\* the chain without the keyword 'field'
classify_noField(selectorHint) ==
  LET hintLower == toLowerCase(selectorHint) IN
  CASE includes(hintLower, "submit") \/ includes(hintLower, "send")
         \/ includes(hintLower, "confirm") -> "submit"
    [] includes(hintLower, "search") \/ includes(hintLower, "find") -> "search"
    [] includes(hintLower, "login") \/ includes(hintLower, "email")
         \/ includes(hintLower, "username") -> "login"
    [] includes(hintLower, "password") \/ includes(hintLower, "pass") -> "password"
    [] includes(hintLower, "button") \/ includes(hintLower, "btn")
         \/ includes(hintLower, "click") -> "button"
    [] includes(hintLower, "link") -> "link"
    [] includes(hintLower, "input") \/ includes(hintLower, "text") -> "input"
    [] OTHER -> "none"

\* the if / else-if chain of lines 436-457; hintLower is computed once (line 432)
classify(selectorHint) ==
  LET category[hintLower \in {toLowerCase(selectorHint)}] ==
        CASE includes(hintLower, "submit") \/ includes(hintLower, "send")
               \/ includes(hintLower, "confirm") -> "submit"
          [] includes(hintLower, "search") \/ includes(hintLower, "find") -> "search"
          [] includes(hintLower, "login") \/ includes(hintLower, "email")
               \/ includes(hintLower, "username") -> "login"
          [] includes(hintLower, "password") \/ includes(hintLower, "pass") -> "password"
          [] includes(hintLower, "button") \/ includes(hintLower, "btn")
               \/ includes(hintLower, "click") -> "button"
          [] includes(hintLower, "link") -> "link"
          [] includes(hintLower, "input") \/ includes(hintLower, "field")
               \/ includes(hintLower, "text") -> "input"
          [] OTHER -> "none"
  IN category[toLowerCase(selectorHint)]

null ==
  [selector |-> "", confidence |-> "null", description |-> <<>>, elementType |-> ""]

\* least element of a non-empty set of indices
firstOf(S) ==
  CHOOSE i \in S : \A j \in S : i <= j

\* btn.value of line 473: the value attribute of a button, the current value of an input
elementValue(n) ==
  IF n.tag \in {"input", "textarea"} THEN n.value ELSE n.valueAttr

\* id ? '#' + id : className ? '.' + className.split(' ')[0] : fallback
idOrClassSelector(n, fallback) ==
  IF n.id # "" THEN "#" \o n.id
  ELSE IF Len(n.cls) > 0 THEN "." \o n.cls[1]
  ELSE fallback

\* the selector built for an input hit (lines 508-511)
inputSelector(n) ==
  IF n.id # "" THEN "#" \o n.id
  ELSE IF n.name # "" THEN "input[name=\"" \o n.name \o "\"]"
  ELSE IF Len(n.cls) > 0 THEN "." \o n.cls[1]
  ELSE "input[type=\"" \o (IF n.type # "" THEN n.type ELSE "text") \o "\"]"

\* the result pushed for a text match (lines 526-530)
textMatch(sel, tagName, selectorHint) ==
  << [selector |-> sel, confidence |-> "text-match",
      description |-> <<"by text", tagName, selectorHint>>, elementType |-> ""] >>

\* the script of lines 465-519: buttons, then links, then inputs; no visibility test
textContentMatch(document, selectorHint) ==
  LET searchText == toLowerCase(selectorHint)
      buttons == {i \in 1..Len(document) :
                    /\ \/ document[i].tag = "button"
                       \/ document[i].tag = "a" /\ hasClass(document[i], "btn")
                       \/ document[i].tag = "a" /\ hasClass(document[i], "button")
                       \/ document[i].role = "button"
                    /\ \/ includesLower(document[i].text, searchText)
                       \/ includesLower(elementValue(document[i]), searchText)}
      links == {i \in 1..Len(document) :
                    /\ document[i].tag = "a"
                    /\ includesLower(document[i].text, searchText)}
      inputs == {i \in 1..Len(document) :
                    /\ document[i].tag \in {"input", "textarea"}
                    /\ \/ includesLower(document[i].placeholder, searchText)
                       \/ includesLower(document[i].ariaLabel, searchText)
                       \/ includesLower(document[i].title, searchText)}
      btn == document[firstOf(buttons)]
      link == document[firstOf(links)]
      input == document[firstOf(inputs)]
  IN
  IF buttons # {} THEN textMatch(idOrClassSelector(btn, btn.tag), btn.tag, selectorHint)
  ELSE IF links # {} THEN textMatch(idOrClassSelector(link, "a"), "a", selectorHint)
  ELSE IF inputs # {} THEN textMatch(inputSelector(input), input.tag, selectorHint)
  ELSE <<>>

\* the three attribute selectors of lines 537-541, built around the hint
textSelectors(selectorHint) ==
  << "*[aria-label*=\"" \o selectorHint \o builtSuffix,
     "*[title*=\"" \o selectorHint \o builtSuffix,
     "input[placeholder*=\"" \o selectorHint \o builtSuffix >>

\* the loop of lines 543-557: the first built selector that exists, if any
attributeMatch(document, selectorHint) ==
  LET ok == {k \in 1..3 : checkElementExists(document, textSelectors(selectorHint)[k])} IN
  IF ok = {} THEN <<>>
  ELSE << [selector |-> textSelectors(selectorHint)[firstOf(ok)],
           confidence |-> "text-match",
           description |-> <<"by text", selectorHint>>,
           elementType |-> ""] >>

\* lines 415-429: the hint tested as a literal selector
exactMatch(document, selectorHint) ==
  IF looksLikeCss(selectorHint) /\ checkElementExists(document, selectorHint)
  THEN << [selector |-> selectorHint, confidence |-> "exact",
           description |-> <<"User-provided selector">>, elementType |-> ""] >>
  ELSE <<>>

\* the chain choosing by the caller's elementType when the hint names no category
determine_byElementType(selectorHint, elementType) ==
  LET chosen[category \in {classify(selectorHint)}] ==
        LET type == IF category = "none" /\ elementType \in {"button", "input"}
                    THEN elementType ELSE category
        IN [patterns |-> SELECTOR_PATTERNS(type), elementType |-> type]
  IN chosen[classify(selectorHint)]

\* lines 433-457: the patterns and the elementType the chain leaves behind; a hint
\* of no category keeps the empty list and the elementType of the caller
determine(selectorHint, elementType) ==
  LET chosen[category \in {classify(selectorHint)}] ==
        [patterns |-> SELECTOR_PATTERNS(category),
         elementType |-> IF category = "none" THEN elementType ELSE category]
  IN chosen[classify(selectorHint)]

\* lines 560-576: the first of the patterns that passes checkElementExists
patternMatch(document, patterns, elementType) ==
  LET ok == {k \in 1..Len(patterns) : checkElementExists(document, patterns[k])} IN
  IF ok = {} THEN <<>>
  ELSE << [selector |-> patterns[firstOf(ok)], confidence |-> "pattern-match",
           description |-> <<"element pattern", elementType>>,
           elementType |-> elementType] >>

\* discoverBestSelector returning the last result instead of the first
discoverBestSelector_lastResult(document, selectorHint, elementType) ==
  LET chosen == determine(selectorHint, elementType)
      results ==
        exactMatch(document, selectorHint)
        \o (IF Len(chosen.patterns) = 0 /\ selectorHint # ""
            THEN textContentMatch(document, selectorHint)
                 \o attributeMatch(document, selectorHint)
            ELSE <<>>)
        \o patternMatch(document, chosen.patterns, chosen.elementType)
  IN IF Len(results) > 0 THEN results[Len(results)] ELSE null

\* discoverBestSelector(client, selectorHint, elementType): results[0] or null
discoverBestSelector(document, selectorHint, elementType) ==
  LET best[chosen \in {determine(selectorHint, elementType)}] ==
        LET results ==
              exactMatch(document, selectorHint)
              \o (IF Len(chosen.patterns) = 0 /\ selectorHint # ""
                  THEN textContentMatch(document, selectorHint)
                       \o attributeMatch(document, selectorHint)
                  ELSE <<>>)
              \o patternMatch(document, chosen.patterns, chosen.elementType)
        IN IF Len(results) > 0 THEN results[1] ELSE null
  IN best[determine(selectorHint, elementType)]

\* one thing the call asks of the browser or of validateSelector: a connection
\* opened or closed, a string validateSelector let through, or an expression
\* evaluated in the page, with who issued it, the selector it is about and the
\* caller's string its text interpolates ("" when it carries none)
asked(op, by, sel, arg) ==
  [op |-> op, by |-> by, selector |-> sel, arg |-> arg]

\* the selectors a loop with break hands to checkElementExists: all of them up to
\* and including the first that exists
untilFirst(document, selectors) ==
  LET ok == {k \in 1..Len(selectors) : checkElementExists(document, selectors[k])}
  IN SubSeq(selectors, 1, IF ok = {} THEN Len(selectors) ELSE firstOf(ok))

\* a discovery that stops querying once the literal test has succeeded
discoveryQueries_shortCircuit(document, selectorHint, elementType) ==
  LET chosen == determine(selectorHint, elementType)
      attributes == untilFirst(document, textSelectors(selectorHint))
      patterns == untilFirst(document, chosen.patterns)
  IN
  IF exactMatch(document, selectorHint) # <<>>
  THEN <<asked("evaluate", "exact", selectorHint, selectorHint)>>
  ELSE (IF looksLikeCss(selectorHint)
        THEN <<asked("evaluate", "exact", selectorHint, selectorHint)>> ELSE <<>>)
       \o (IF Len(chosen.patterns) = 0 /\ selectorHint # ""
           THEN <<asked("evaluate", "text", "", selectorHint)>>
                \o [k \in 1..Len(attributes) |->
                      asked("evaluate", "attribute", attributes[k], selectorHint)]
           ELSE <<>>)
       \o [k \in 1..Len(patterns) |-> asked("evaluate", "pattern", patterns[k], "")]

\* the Runtime.evaluate calls of one discoverBestSelector, in order: the literal
\* test (line 418), the text script (line 463), the attribute selectors (line 545)
\* and the patterns (line 563)
discoveryQueries(document, selectorHint, elementType) ==
  LET issued[chosen \in {determine(selectorHint, elementType)}] ==
        LET attributes == untilFirst(document, textSelectors(selectorHint))
            patterns == untilFirst(document, chosen.patterns)
        IN
        (IF looksLikeCss(selectorHint)
         THEN <<asked("evaluate", "exact", selectorHint, selectorHint)>> ELSE <<>>)
        \o (IF Len(chosen.patterns) = 0 /\ selectorHint # ""
            THEN <<asked("evaluate", "text", "", selectorHint)>>
                 \o [k \in 1..Len(attributes) |->
                       asked("evaluate", "attribute", attributes[k], selectorHint)]
            ELSE <<>>)
        \o [k \in 1..Len(patterns) |-> asked("evaluate", "pattern", patterns[k], "")]
  IN issued[determine(selectorHint, elementType)]

(***************************************************************************)
(* State.                                                                  *)
(***************************************************************************)
VARIABLES
  page,          \* the document of the tab
  focus,         \* nid of the focused node of the page, 0 when none
  call,          \* the call in progress and its arguments
  pc,            \* position of the call
  client,        \* the protocol connection of withTab: "null", "open" or "closed"
  caps,          \* what the connection offers: the DOM domain, the Input domain
  selector,      \* the selector clickElement / typeText settled on
  discoveryInfo, \* what discoverBestSelector returned
  wait,          \* waitForElement: its observer, what it saw, what it returned
  coordResult,   \* what getElementCoordinates returned
  events,        \* the input the call has delivered to the page, in order
  outcome,       \* how the controller method settled
  toolResult,    \* what the tool handler returned
  mutations,     \* page changes so far
  calls,         \* calls started so far
  declared,      \* whether the page's global scope holds a top-level `element`
  targets,       \* the ids of the tabs the browser lists now
  attempts,      \* the input paths the call has entered, in order
  sessions,      \* concurrent withTab invocations and the browser's connections
  formData,      \* what analyzeFormInternal returned
  geometry,      \* what the protocol answered to the three coordinate reads
  trace,         \* what the call has asked of the browser so far, in order
  controller     \* the fields of the ChromeController object

vars ==
  <<page, focus, call, pc, client, caps, selector, discoveryInfo, wait, coordResult,
    events, outcome, toolResult, mutations, calls, declared,
                 targets, attempts, sessions,
                 formData, geometry, trace, controller>>

\* bounds
MaxMutations == 1

MaxCalls == 1

MaxOps == 3

\* hints and selectors callers pass
Hints ==
  { "submit", "Submit", "user@example.com field", ".btn", "#em", "#missing",
    "input.missing", "input[type=\"email\"]", "form > button", "button:last-of-type",
    "button", "go", "next", "", "search button", "Password field", "send link" }

NoCall ==
  [tool |-> "none", tab_id |-> "", selector |-> "", text |-> "", clear |-> TRUE,
   elementType |-> "", url |-> ""]

NoWait ==
  [observer |-> "none", matched |-> FALSE, hiddenOnly |-> TRUE,
   result |-> "none", exists |-> FALSE, visible |-> FALSE, timedOut |-> FALSE,
   nid |-> 0]

NoCoord ==
  [success |-> FALSE, x |-> -1, y |-> -1, method |-> "none"]

NoOutcome ==
  [state |-> "pending", success |-> FALSE, error |-> "", method |-> <<>>,
   exists |-> FALSE, visible |-> FALSE, defined |-> {}]

\* `defined` names the fields among exists and visible whose value is not undefined
NoToolResult ==
  [state |-> "pending", success |-> FALSE, error |-> "", exists |-> FALSE,
   visible |-> FALSE, selector |-> "", defined |-> {}]

\* analyzeFormInternal has not returned
NoForm ==
  [state |-> "none", elements |-> 0]

\* a coordinate read of the protocol: it threw, it answered without geometry, or it
\* answered with the eight numbers x1, y1, ..., x4, y4
NoAnswer ==
  [kind |-> "none", quad |-> <<>>]

\* the bounding rectangle the page's script returned: null, or left, top, width, height
NoRect ==
  [kind |-> "none", left |-> 0, top |-> 0, width |-> 0, height |-> 0]

NoGeometry ==
  [quads |-> NoAnswer, box |-> NoAnswer, rect |-> NoRect]

\* the ids CDP.List reports when the server starts
LiveTargets ==
  {"tab1"}

\* the withTab invocations that run side by side
Ops ==
  1..MaxOps

\* no invocation has started, the browser holds no connection
NoSessions ==
  [op |-> [o \in Ops |-> [pc |-> "idle", tabId |-> "", client |-> 0]],
   connections |-> <<>>]

\* the fields the constructor sets that a method could write later; the
\* configuration is the port, the launch options and the directories
Constructed ==
  [client |-> "null", isConnected |-> FALSE, configuration |-> "config"]

Idle ==
  /\ focus = 0
  /\ client = "null"
  /\ caps = [dom |-> FALSE, input |-> FALSE]
  /\ selector = ""
  /\ discoveryInfo = null
  /\ wait = NoWait
  /\ coordResult = NoCoord
  /\ events = <<>>
  /\ outcome = NoOutcome
  /\ toolResult = NoToolResult
  /\ mutations = 0
  /\ calls = 0
  /\ declared = FALSE
  /\ targets = LiveTargets
  /\ attempts = <<>>
  /\ sessions = NoSessions
  /\ formData = NoForm
  /\ geometry = NoGeometry
  /\ trace = <<>>
  /\ controller = Constructed

(***************************************************************************)
(* The page changes on its own: a node is shown or hidden (a style or      *)
(* class change), or removed.                                              *)
(***************************************************************************)
setDisplay(document, i, d) ==
  [document EXCEPT ![i].display = d]

removeNode(document, i) ==
  [k \in 1..(Len(document) - 1) |-> IF k < i THEN document[k] ELSE document[k + 1]]

PageMutations(document) ==
  {setDisplay(document, i, IF document[i].display = "none" THEN "block" ELSE "none") :
     i \in 1..Len(document)}
  \cup {removeNode(document, i) : i \in 1..Len(document)}

(***************************************************************************)
(* One tool call: the handler of elements.js calls the controller method,  *)
(* which runs its callback inside withTab.                                 *)
(***************************************************************************)
MaxSelectorLength == 1000

\* an id selector one character longer than validateSelector accepts
LongSelector ==
  "#" \o repeat("a", MaxSelectorLength)

\* selectors and hints of the tool calls
CallSelectors ==
  { "submit", "#em", ".btn", "#missing", "input.missing", "user@example.com field",
    "", "submit javascript:", "#em<script", "#em[", LongSelector }

\* the form_selector arguments of analyze_form; "form" is its default
FormSelectors ==
  { "form", "#missing", "#em", "#em[" }

\* the url arguments of navigate_to
Urls ==
  { "https://example.com/", "example.com" }

Calls ==
  [tool : {"click_element"}, tab_id : {"tab1", "tab9"}, selector : CallSelectors,
   text : {""}, clear : {TRUE}, elementType : {"button"}, url : {""}]
  \cup
  [tool : {"click_element"}, tab_id : {"tab1"}, selector : {"search button"},
   text : {""}, clear : {TRUE}, elementType : {"button"}, url : {""}]
  \cup
  [tool : {"type_text"}, tab_id : {"tab1"}, selector : CallSelectors,
   text : {"q"}, clear : BOOLEAN, elementType : {"input"}, url : {""}]
  \cup
  [tool : {"element_exists", "get_element_text"}, tab_id : {"tab1"},
   selector : CallSelectors, text : {""}, clear : {TRUE}, elementType : {""}, url : {""}]
  \cup
  [tool : {"navigate_to"}, tab_id : {"tab1"}, selector : {""}, text : {""},
   clear : {TRUE}, elementType : {""}, url : Urls]
  \cup
  [tool : {"no_such_tool"}, tab_id : {"tab1"}, selector : {""}, text : {""},
   clear : {TRUE}, elementType : {""}, url : {""}]
  \cup
  [tool : {"analyze_form"}, tab_id : {"tab1"}, selector : FormSelectors, text : {""},
   clear : {TRUE}, elementType : {""}, url : {""}]

\* the tools of handleElementTool
ElementTools ==
  {"analyze_form", "click_element", "type_text", "element_exists", "get_element_text"}

\* elementExists and getElementText validate the selector before withTab
\* (lines 1073, 1163)
validatesFirst(tool) ==
  tool \in {"element_exists", "get_element_text"}

\* the documents a tab shows when its first call arrives
Pages ==
  { <<SubmitButton>>,
    <<EmailInput>>,
    <<TextInput, SubmitButton>>,
    <<[EmailInput EXCEPT !.display = "none"]>> }

Init ==
  /\ page \in Pages
  /\ call = NoCall
  /\ pc = "idle"
  /\ Idle

threw(error) ==
  [NoOutcome EXCEPT !.state = "threw", !.error = error]

\* navigation.js, line 112
httpUrl(url) ==
  startsWith(url, "http://") \/ startsWith(url, "https://")

\* handleToolCall routes the name (index.js, lines 17-37): where a call first
\* suspends, or the error it throws before that
entry(c) ==
  CASE c.tool \in {"click_element", "type_text", "analyze_form"} ->
         [pc |-> "getTargets", outcome |-> NoOutcome]
    [] validatesFirst(c.tool) ->
         [pc |-> "validate", outcome |-> NoOutcome]
    [] c.tool = "navigate_to" /\ httpUrl(c.url) ->
         [pc |-> "getTargets", outcome |-> NoOutcome]
    [] c.tool = "navigate_to" /\ ~httpUrl(c.url) ->
         [pc |-> "catch", outcome |-> threw("URL must start with http:// or https://")]
    [] OTHER ->
         [pc |-> "catch", outcome |-> threw("Unknown tool")]

\* the handler is entered: click_element and type_text go straight into withTab,
\* elementExists and getElementText validate the selector first
StartCall ==
  /\ pc \in {"idle", "done"}
  /\ calls < MaxCalls
  /\ call' \in Calls
  /\ pc' = entry(call').pc
  /\ calls' = calls + 1
  /\ client' = "null"
  /\ caps' = [dom |-> FALSE, input |-> FALSE]
  /\ selector' = IF validatesFirst(call'.tool) THEN call'.selector ELSE ""
  /\ discoveryInfo' = null
  /\ wait' = NoWait
  /\ coordResult' = NoCoord
  /\ events' = <<>>
  /\ outcome' = entry(call').outcome
  /\ toolResult' = NoToolResult
  /\ attempts' = <<>>
  /\ formData' = NoForm
  /\ geometry' = NoGeometry
  /\ trace' = <<>>
  /\ UNCHANGED <<page, focus, mutations, declared, targets, sessions, controller>>

\* a tab is closed while no connection of the call is open on it
TabCloses ==
  /\ pc \in {"idle", "validate", "getTargets", "connect", "done"}
  /\ \E t \in targets : targets' = targets \ {t}
  /\ UNCHANGED <<page, focus, call, pc, client, caps, selector, discoveryInfo, wait,
                 coordResult, events, outcome, toolResult, mutations, calls, declared,
                 attempts, sessions,
                 formData, geometry, trace, controller>>

\* withTab, lines 281-286, searching the list the server started with
WithTabGetTargets_cached ==
  /\ pc = "getTargets"
  /\ IF call.tab_id \in LiveTargets
     THEN pc' = "connect" /\ UNCHANGED outcome
     ELSE pc' = "finally" /\ outcome' = threw("Tab not found")
  /\ UNCHANGED <<page, focus, call, client, caps, selector, discoveryInfo, wait,
                 coordResult, events, toolResult, mutations, calls, declared,
                 targets, attempts, sessions,
                 formData, geometry, trace, controller>>

\* withTab, lines 281-286: the target list is fetched and searched for the tab id
WithTabGetTargets ==
  /\ pc = "getTargets"
  /\ IF call.tab_id \in targets
     THEN pc' = "connect" /\ UNCHANGED outcome
     ELSE pc' = "finally" /\ outcome' = threw("Tab not found")
  /\ UNCHANGED <<page, focus, call, client, caps, selector, discoveryInfo, wait,
                 coordResult, events, toolResult, mutations, calls, declared,
                 targets, attempts, sessions,
                 formData, geometry, trace, controller>>

\* withTab keeping its connection on the controller, as connect() does at 226-232
WithTabConnect_storesClient ==
  /\ pc = "connect"
  /\ call.tab_id \in targets
  /\ client' = "open"
  /\ pc' = "enable"
  /\ trace' = Append(trace, asked("connect", "withTab", "", ""))
  /\ controller' = [controller EXCEPT !.client = "open", !.isConnected = TRUE]
  /\ UNCHANGED <<page, focus, call, caps, selector, discoveryInfo, wait, coordResult,
                 events, outcome, toolResult, mutations, calls, declared,
                 targets, attempts, sessions,
                 formData, geometry>>

\* withTab, line 288: the connection is opened on the tab, which is still there
WithTabConnect ==
  /\ pc = "connect"
  /\ call.tab_id \in targets
  /\ client' = "open"
  /\ pc' = "enable"
  /\ trace' = Append(trace, asked("connect", "withTab", "", ""))
  /\ UNCHANGED <<page, focus, call, caps, selector, discoveryInfo, wait, coordResult,
                 events, outcome, toolResult, mutations, calls, declared,
                 targets, attempts, sessions,
                 formData, geometry, controller>>

\* withTab, line 288: the handshake fails, client stays null
WithTabConnectFails ==
  /\ pc = "connect"
  /\ outcome' = threw("Connection failed")
  /\ pc' = "finally"
  /\ UNCHANGED <<page, focus, call, client, caps, selector, discoveryInfo, wait,
                 coordResult, events, toolResult, mutations, calls, declared,
                 targets, attempts, sessions,
                 formData, geometry, trace, controller>>

\* withTab, line 301: where the callback of each controller method begins
callback(tool) ==
  CASE validatesFirst(tool) -> "wait"
    [] tool = "navigate_to" -> "navigate"
    [] tool = "analyze_form" -> "analyze"
    [] OTHER -> "discover"

\* withTab with a DOM domain whose absence or failure ends the call
WithTabEnable_domFatal ==
  /\ pc = "enable"
  /\ \E dom \in BOOLEAN :
       /\ caps' = [caps EXCEPT !.dom = dom]
       /\ IF dom
          THEN /\ pc' = callback(call.tool)
               /\ UNCHANGED outcome
          ELSE /\ pc' = "finally"
               /\ outcome' = threw("DOM.enable failed")
  /\ UNCHANGED <<page, focus, call, client, selector, discoveryInfo, wait, coordResult,
                 events, toolResult, mutations, calls, declared,
                 targets, attempts, sessions,
                 formData, geometry, trace, controller>>

\* withTab, lines 289-299: Page and Runtime are enabled; the DOM domain is enabled
\* when the client has it, and a failure there is only logged
WithTabEnable ==
  /\ pc = "enable"
  /\ \E dom \in BOOLEAN : caps' = [caps EXCEPT !.dom = dom]
  /\ pc' = callback(call.tool)
  /\ UNCHANGED <<page, focus, call, client, selector, discoveryInfo, wait, coordResult,
                 events, outcome, toolResult, mutations, calls, declared,
                 targets, attempts, sessions,
                 formData, geometry, trace, controller>>

\* withTab, lines 289-290: Page.enable or Runtime.enable throws
WithTabEnableThrows ==
  /\ pc = "enable"
  /\ outcome' = threw("Protocol error")
  /\ pc' = "finally"
  /\ UNCHANGED <<page, focus, call, client, caps, selector, discoveryInfo, wait,
                 coordResult, events, toolResult, mutations, calls, declared,
                 targets, attempts, sessions,
                 formData, geometry, trace, controller>>

\* an element tool settles inside the try / catch of its case (elements.js); the
\* navigation handler has none, so its error reaches the catch of handleToolCall
settles ==
  IF call.tool \notin ElementTools /\ outcome.state = "threw" THEN "catch" ELSE "handler"

\* withTab, finally block without the close on the exception path
WithTabFinally_noCloseOnThrow ==
  /\ pc = "finally"
  /\ client' = IF client = "open" /\ outcome.state = "returned" THEN "closed" ELSE client
  /\ pc' = settles
  /\ trace' = IF client' # client
               THEN Append(trace, asked("close", "withTab", "", "")) ELSE trace
  /\ UNCHANGED <<page, focus, call, caps, selector, discoveryInfo, wait, coordResult,
                 events, outcome, toolResult, mutations, calls, declared,
                 targets, attempts, sessions,
                 formData, geometry, controller>>

\* withTab, lines 303-307: the connection, if one was opened, is closed; the call
\* then settles into the handler's try / catch
WithTabFinally ==
  /\ pc = "finally"
  /\ client' = IF client = "open" THEN "closed" ELSE client
  /\ pc' = settles
  /\ trace' = IF client' # client
               THEN Append(trace, asked("close", "withTab", "", "")) ELSE trace
  /\ UNCHANGED <<page, focus, call, caps, selector, discoveryInfo, wait, coordResult,
                 events, outcome, toolResult, mutations, calls, declared,
                 targets, attempts, sessions,
                 formData, geometry, controller>>

\* the test of clickElement and typeText (lines 844-850, 948-954)
looksLikeSelector(selectorOrHint) ==
  /\ selectorOrHint # ""
  /\ \/ startsWith(selectorOrHint, ".")
     \/ startsWith(selectorOrHint, "#")
     \/ includes(selectorOrHint, "[")
     \/ includes(selectorOrHint, ">")
     \/ includes(selectorOrHint, " .")

\* clickElement / typeText, lines 840-862: the selector is the hint itself when it
\* looks like a selector, else what discovery found, else the hint again
Discover ==
  /\ pc = "discover"
  /\ IF looksLikeSelector(call.selector)
     THEN discoveryInfo' = null
     ELSE discoveryInfo' = discoverBestSelector(page, call.selector, call.elementType)
  /\ selector' = IF discoveryInfo' # null THEN discoveryInfo'.selector ELSE call.selector
  /\ pc' = "validate"
  /\ trace' = IF looksLikeSelector(call.selector) THEN trace
               ELSE trace \o discoveryQueries(page, call.selector, call.elementType)
  /\ UNCHANGED <<page, focus, call, client, caps, wait, coordResult, events, outcome,
                 toolResult, mutations, calls, declared,
                 targets, attempts, sessions,
                 formData, geometry, controller>>

\* the selector as the page scripts interpolate it is the caller's own string
\* unless discovery replaced it
callerString ==
  IF selector = call.selector THEN selector ELSE ""

\* executeInTab(tabId, expression) of lines 310-324 as validateSelector calls it
\* (line 828): withTab throws before connecting when no target has the id, and
\* connects, evaluates and closes otherwise
probe(tabId, sel) ==
  IF tabId \in targets
  THEN << asked("connect", "validateSelector", "", ""),
          asked("evaluate", "validateSelector", sel, sel),
          asked("close", "validateSelector", "", "") >>
  ELSE <<>>

\* validateSelector, lines 815-836: the probe through executeInTab(null, ...) always
\* fails (no target has a null id), which leaves the length test
validateSelector(sel) ==
  IF sel = "" THEN "Invalid selector: must be a non-empty string"
  ELSE IF includes(sel, "javascript:") \/ includes(sel, "<script")
  THEN "Invalid selector: potential security risk detected"
  ELSE IF Len(sel) > MaxSelectorLength THEN "Invalid selector: too long"
  ELSE "valid"

\* validateSelector probing the tab of the call instead of a null tab id: the probe
\* connects, and a probe that succeeds skips the length test
Validate_probesTab ==
  /\ pc = "validate"
  /\ LET verdict == IF call.tab_id \in targets /\ Len(selector) > MaxSelectorLength
                    THEN "valid" ELSE validateSelector(selector)
     IN /\ IF verdict = "valid"
           THEN /\ pc' = IF validatesFirst(call.tool) THEN "getTargets" ELSE "wait"
                /\ UNCHANGED outcome
           ELSE /\ pc' = IF validatesFirst(call.tool) THEN "handler" ELSE "finally"
                /\ outcome' = threw(verdict)
        /\ trace' = trace
             \o (IF validateSelector(selector) \in {"valid", "Invalid selector: too long"}
                 THEN probe(call.tab_id, selector) ELSE <<>>)
             \o (IF verdict = "valid"
                 THEN <<asked("validate", "validateSelector", selector, selector)>>
                 ELSE <<>>)
  /\ UNCHANGED <<page, focus, call, client, caps, selector, discoveryInfo, wait,
                 coordResult, events, toolResult, mutations, calls, declared,
                 targets, attempts, sessions,
                 formData, geometry, controller>>

\* clickElement line 865, typeText line 969, getElementText line 1073,
\* elementExists line 1163: the selector passes validateSelector or the call throws
Validate ==
  /\ pc = "validate"
  /\ IF validateSelector(selector) = "valid"
     THEN /\ pc' = IF validatesFirst(call.tool) THEN "getTargets" ELSE "wait"
          /\ UNCHANGED outcome
     ELSE /\ pc' = IF validatesFirst(call.tool) THEN "handler" ELSE "finally"
          /\ outcome' = threw(validateSelector(selector))
  /\ trace' = trace
       \o (IF validateSelector(selector) \in {"valid", "Invalid selector: too long"}
           THEN probe("null", selector) ELSE <<>>)
       \o (IF validateSelector(selector) = "valid"
           THEN <<asked("validate", "validateSelector", selector, selector)>>
           ELSE <<>>)
  /\ UNCHANGED <<page, focus, call, client, caps, selector, discoveryInfo, wait,
                 coordResult, events, toolResult, mutations, calls, declared,
                 targets, attempts, sessions,
                 formData, geometry, controller>>

(***************************************************************************)
(* waitForElement: an immediate check, then a MutationObserver and a timer *)
(***************************************************************************)
\* findElement of lines 732-760: null, or the snapshot of the first selected node;
\* nid names the node the snapshot was taken of
findElement(document, sel) ==
  LET element == querySelector(document, sel)
  IN IF element = 0
     THEN [exists |-> FALSE, visible |-> FALSE, nid |-> 0]
     ELSE [exists |-> TRUE, visible |-> isVisible(document[element]),
           nid |-> document[element].nid]

\* what the wait has seen of the page so far
seen(w, document, sel) ==
  LET element == IF validCSS(sel) THEN findElement(document, sel)
                 ELSE [exists |-> FALSE, visible |-> FALSE, nid |-> 0]
  IN [w EXCEPT !.matched = w.matched \/ element.exists,
               !.hiddenOnly = w.hiddenOnly /\ element.exists /\ ~element.visible]

resolved(w, snapshot) ==
  [w EXCEPT !.observer = IF w.observer = "observing" THEN "disconnected" ELSE w.observer,
            !.result = "resolved", !.exists = snapshot.exists, !.visible = snapshot.visible,
            !.nid = snapshot.nid]

rejected(w) ==
  [w EXCEPT !.observer = IF w.observer = "observing" THEN "disconnected" ELSE w.observer,
            !.result = "threw"]

\* where the callback goes once waitForElement has returned or thrown
afterWait(w) ==
  IF call.tool = "element_exists"
  THEN IF w.result = "resolved" THEN "finally" ELSE "existsFallback"
  ELSE IF call.tool = "get_element_text"
  THEN IF w.result = "resolved" THEN "getText" ELSE "finally"
  ELSE IF w.result = "resolved" THEN "locate" ELSE "finally"

outcomeAfterWait(w) ==
  IF call.tool = "element_exists"
  THEN IF w.result = "resolved"
       THEN [NoOutcome EXCEPT !.state = "returned", !.success = TRUE, !.exists = TRUE,
                              !.defined = {"exists", "visible"},
                              !.visible = w.visible]
       ELSE outcome
  ELSE IF w.result = "resolved" THEN outcome
       ELSE threw("Element not found or not visible")

\* waitForElement, lines 729-766: the script is evaluated; a selector the page
\* rejects makes the promise reject at once, a visible node resolves it at once,
\* otherwise the observer is subscribed and the timer armed
WaitBegin ==
  /\ pc = "wait"
  /\ LET w == seen(wait, page, selector) IN
       IF ~validCSS(selector)
       THEN wait' = rejected(w)
       ELSE IF findElement(page, selector).visible
       THEN wait' = resolved(w, findElement(page, selector))
       ELSE wait' = [w EXCEPT !.observer = "observing"]
  /\ pc' = IF wait'.result = "none" THEN "waiting" ELSE afterWait(wait')
  /\ outcome' = IF wait'.result = "none" THEN outcome ELSE outcomeAfterWait(wait')
  /\ trace' = Append(trace, asked("evaluate", "waitForElement", selector, callerString))
  /\ UNCHANGED <<page, focus, call, client, caps, selector, discoveryInfo, coordResult,
                 events, toolResult, mutations, calls, declared,
                 targets, attempts, sessions,
                 formData, geometry, controller>>

\* waitForElement timer that rejects a node that exists but is hidden
WaitTimeout_rejectsHidden ==
  /\ pc = "waiting"
  /\ IF findElement(page, selector).visible
     THEN wait' = [resolved(wait, findElement(page, selector)) EXCEPT !.timedOut = TRUE]
     ELSE wait' = [rejected(wait) EXCEPT !.timedOut = TRUE]
  /\ pc' = afterWait(wait')
  /\ outcome' = outcomeAfterWait(wait')
  /\ UNCHANGED <<page, focus, call, client, caps, selector, discoveryInfo, coordResult,
                 events, toolResult, mutations, calls, declared,
                 targets, attempts, sessions,
                 formData, geometry, trace, controller>>

\* waitForElement timer without the rejection: resolves with whatever findElement gives
WaitTimeout_alwaysResolves ==
  /\ pc = "waiting"
  /\ wait' = [resolved(wait, [exists |-> TRUE,
                              visible |-> findElement(page, selector).visible,
                              nid |-> findElement(page, selector).nid])
               EXCEPT !.timedOut = TRUE]
  /\ pc' = afterWait(wait')
  /\ outcome' = outcomeAfterWait(wait')
  /\ UNCHANGED <<page, focus, call, client, caps, selector, discoveryInfo, coordResult,
                 events, toolResult, mutations, calls, declared,
                 targets, attempts, sessions,
                 formData, geometry, trace, controller>>

\* the timer of lines 786-795 without its observer.disconnect()
WaitTimeout_keepsObserver ==
  /\ pc = "waiting"
  /\ IF findElement(page, selector).exists
     THEN wait' = [wait EXCEPT !.result = "resolved", !.timedOut = TRUE,
                               !.exists = TRUE,
                               !.visible = findElement(page, selector).visible,
                               !.nid = findElement(page, selector).nid]
     ELSE wait' = [wait EXCEPT !.result = "threw", !.timedOut = TRUE]
  /\ pc' = afterWait(wait')
  /\ outcome' = outcomeAfterWait(wait')
  /\ UNCHANGED <<page, focus, call, client, caps, selector, discoveryInfo, coordResult,
                 events, toolResult, mutations, calls, declared,
                 targets, attempts, sessions,
                 formData, geometry, trace, controller>>

\* waitForElement, lines 786-795 and 802-812: the timer fires, the observer is
\* disconnected, and a node that exists resolves the wait, visible or not
WaitTimeout ==
  /\ pc = "waiting"
  /\ IF findElement(page, selector).exists
     THEN wait' = [resolved(wait, findElement(page, selector)) EXCEPT !.timedOut = TRUE]
     ELSE wait' = [rejected(wait) EXCEPT !.timedOut = TRUE]
  /\ pc' = afterWait(wait')
  /\ outcome' = outcomeAfterWait(wait')
  /\ UNCHANGED <<page, focus, call, client, caps, selector, discoveryInfo, coordResult,
                 events, toolResult, mutations, calls, declared,
                 targets, attempts, sessions,
                 formData, geometry, trace, controller>>

\* the page changes while no wait is observing it
PageChanges ==
  /\ pc \notin {"idle", "done", "waiting"}
  /\ mutations < MaxMutations
  /\ page' \in PageMutations(page)
  /\ mutations' = mutations + 1
  /\ UNCHANGED <<focus, call, pc, client, caps, selector, discoveryInfo, wait,
                 coordResult, events, outcome, toolResult, calls, declared,
                 targets, attempts, sessions,
                 formData, geometry, trace, controller>>

\* the observer callback without its findElement: a change of the page during the
\* wait is looked at by the timer only
PageChangesObserved_noCheck ==
  /\ pc = "waiting"
  /\ mutations < MaxMutations
  /\ page' \in PageMutations(page)
  /\ mutations' = mutations + 1
  /\ wait' = seen(wait, page', selector)
  /\ UNCHANGED <<focus, call, pc, client, caps, selector, discoveryInfo, coordResult,
                 events, outcome, toolResult, calls, declared,
                 targets, attempts, sessions,
                 formData, geometry, trace, controller>>

\* the page changes during the wait (lines 769-783): the observer callback runs
\* findElement again and resolves the wait when the node is now visible
PageChangesObserved ==
  /\ pc = "waiting"
  /\ mutations < MaxMutations
  /\ page' \in PageMutations(page)
  /\ mutations' = mutations + 1
  /\ LET w == seen(wait, page', selector) IN
       IF findElement(page', selector).visible
       THEN wait' = resolved(w, findElement(page', selector))
       ELSE wait' = w
  /\ pc' = IF wait'.result = "none" THEN "waiting" ELSE afterWait(wait')
  /\ outcome' = IF wait'.result = "none" THEN outcome ELSE outcomeAfterWait(wait')
  /\ UNCHANGED <<focus, call, client, caps, selector, discoveryInfo, coordResult, events,
                 toolResult, calls, declared,
                 targets, attempts, sessions,
                 formData, geometry, trace, controller>>

\* elementExists, lines 1174-1225: the script of the catch branch has a return
\* outside any function, so its evaluation yields no value and the method
\* returns its failure result
ExistsFallback ==
  /\ pc = "existsFallback"
  /\ outcome' = [NoOutcome EXCEPT !.state = "returned", !.success = FALSE,
                                  !.error = "Failed to evaluate element existence"]
  /\ pc' = "finally"
  /\ UNCHANGED <<page, focus, call, client, caps, selector, discoveryInfo, wait,
                 coordResult, events, toolResult, mutations, calls, declared,
                 targets, attempts, sessions,
                 formData, geometry, trace, controller>>

\* the document the tab shows once it has navigated
LoadedPage ==
  <<SubmitButton>>

\* navigateTab, line 328: Page.navigate returns when the navigation has committed;
\* the tab then shows another document, with a global scope of its own
Navigate ==
  /\ pc = "navigate"
  /\ page' = LoadedPage
  /\ focus' = 0
  /\ declared' = FALSE
  /\ pc' = "loading"
  /\ UNCHANGED <<call, client, caps, selector, discoveryInfo, wait, coordResult, events,
                 outcome, toolResult, mutations, calls, targets, attempts, sessions,
                 formData, geometry, trace, controller>>

\* navigateTab, line 328: Page.navigate throws
NavigateThrows ==
  /\ pc = "navigate"
  /\ outcome' = threw("Protocol error")
  /\ pc' = "finally"
  /\ UNCHANGED <<page, focus, call, client, caps, selector, discoveryInfo, wait,
                 coordResult, events, toolResult, mutations, calls, declared,
                 targets, attempts, sessions,
                 formData, geometry, trace, controller>>

\* navigateTab, lines 329-330: the page fires its load event, loadEventFired()
\* resolves and the callback returns; nothing else ends this await
LoadEventFired ==
  /\ pc = "loading"
  /\ outcome' = [NoOutcome EXCEPT !.state = "returned", !.success = TRUE]
  /\ pc' = "finally"
  /\ UNCHANGED <<page, focus, call, client, caps, selector, discoveryInfo, wait,
                 coordResult, events, toolResult, mutations, calls, declared,
                 targets, attempts, sessions,
                 formData, geometry, trace, controller>>

\* a stylesheet or an ancestor outside the observed subtree shows or hides a node
\* during the wait: no observer callback runs
PageChangesUnobserved ==
  /\ pc = "waiting"
  /\ mutations < MaxMutations
  /\ \E i \in 1..Len(page) :
       page' = setDisplay(page, i, IF page[i].display = "none" THEN "block" ELSE "none")
  /\ mutations' = mutations + 1
  /\ wait' = seen(wait, page', selector)
  /\ UNCHANGED <<focus, call, pc, client, caps, selector, discoveryInfo, coordResult,
                 events, outcome, toolResult, calls, declared,
                 targets, attempts, sessions,
                 formData, geometry, trace, controller>>

(***************************************************************************)
(* getElementCoordinates                                                   *)
(***************************************************************************)
\* Math.round(k / 2) for an integer k
roundHalf(k) ==
  (k + 1) \div 2

\* the content quad of a rendered node: x1, y1, x2, y2, x3, y3, x4, y4
contentQuad(n) ==
  << n.left, n.top, n.left + n.width, n.top, n.left + n.width, n.top + n.height,
     n.left, n.top + n.height >>

\* the point of a quad as the average of all four corners
quadPoint_fourCorners(quad) ==
  [x |-> (quad[1] + quad[3] + quad[5] + quad[7] + 2) \div 4,
   y |-> (quad[2] + quad[4] + quad[6] + quad[8] + 2) \div 4]

\* lines 640-642 and 667-669: the point taken from a quad
quadPoint(quad) ==
  [x |-> roundHalf(quad[1] + quad[5]), y |-> roundHalf(quad[2] + quad[6])]

\* lines 704-707: the point taken from the bounding rectangle
rectPoint(rect) ==
  [x |-> roundHalf(2 * rect.left + rect.width), y |-> roundHalf(2 * rect.top + rect.height)]

\* a coordinate read that threw
threwAnswer ==
  [kind |-> "throws", quad |-> <<>>]

\* DOM.getContentQuads or DOM.getBoxModel answering with eight numbers
quadAnswer(quad) ==
  [kind |-> "quad", quad |-> quad]

\* the bounding-rectangle script throwing, and returning the rectangle of its node
threwRect ==
  [NoRect EXCEPT !.kind = "throws"]

rectAnswer(rect) ==
  [kind |-> "rect", left |-> rect.left, top |-> rect.top, width |-> rect.width,
   height |-> rect.height]

\* getElementCoordinates, lines 619-724, from what the three reads answered: the
\* first quad of getContentQuads, else the content box of getBoxModel, else the
\* bounding rectangle when its width and height are positive
coordinatesFrom(g) ==
  IF g.quads.kind = "quad"
  THEN [success |-> TRUE, x |-> quadPoint(g.quads.quad).x, y |-> quadPoint(g.quads.quad).y,
        method |-> "DOM.getContentQuads"]
  ELSE IF g.box.kind = "quad"
  THEN [success |-> TRUE, x |-> quadPoint(g.box.quad).x, y |-> quadPoint(g.box.quad).y,
        method |-> "DOM.getBoxModel"]
  ELSE IF g.rect.kind = "rect" /\ g.rect.width > 0 /\ g.rect.height > 0
  THEN [success |-> TRUE, x |-> rectPoint(g.rect).x, y |-> rectPoint(g.rect).y,
        method |-> "JavaScript_getBoundingClientRect"]
  ELSE [success |-> FALSE, x |-> -1, y |-> -1, method |-> "all_methods_failed"]

\* what the browser answers for the node the selector selects when the first
\* `failing` reads throw: no node id or no quads for a node that is absent or not
\* rendered, the quad of its box otherwise; null from the script for an absent node
protocolGeometry(document, sel, failing) ==
  LET i == IF validCSS(sel) THEN querySelector(document, sel) ELSE 0
      rendered == i # 0 /\ document[i].display # "none"
  IN [quads |-> IF failing >= 1 THEN threwAnswer
                ELSE IF rendered THEN quadAnswer(contentQuad(document[i])) ELSE NoAnswer,
      box |-> IF failing >= 2 THEN threwAnswer
              ELSE IF rendered THEN quadAnswer(contentQuad(document[i])) ELSE NoAnswer,
      rect |-> IF failing >= 3 THEN threwRect
               ELSE IF i # 0 THEN rectAnswer(getBoundingClientRect(document[i]))
               ELSE NoRect]

\* getElementCoordinates without its third method, the bounding-rectangle read
getElementCoordinates_noRect(document, sel, failing) ==
  coordinatesFrom([protocolGeometry(document, sel, failing) EXCEPT !.rect = threwRect])

\* getElementCoordinates, lines 619-724; the first `failing` methods throw
getElementCoordinates(document, sel, failing) ==
  coordinatesFrom(protocolGeometry(document, sel, failing))

\* clickElement line 871, typeText line 975; without the DOM domain the two
\* node-tree methods throw
Locate ==
  /\ pc = "locate"
  /\ \E failing \in 0..3 :
       /\ ~caps.dom => failing >= 2
       /\ coordResult' = getElementCoordinates(page, selector, failing)
  /\ pc' = "act"
  /\ trace' = IF coordResult'.method \in {"DOM.getContentQuads", "DOM.getBoxModel"}
               THEN trace
               ELSE Append(trace, asked("evaluate", "getElementCoordinates", selector,
                                        callerString))
  /\ UNCHANGED <<page, focus, call, client, caps, selector, discoveryInfo, wait, events,
                 outcome, toolResult, mutations, calls, declared,
                 targets, attempts, sessions,
                 formData, geometry, controller>>

(***************************************************************************)
(* Interaction: trusted input through the Input domain, or simulated       *)
(* events dispatched by an evaluated script.                               *)
(***************************************************************************)
\* nid of the topmost visible node under the point, 0 when none
hitTest(document, x, y) ==
  LET under == {i \in 1..Len(document) :
                  /\ isVisible(document[i])
                  /\ document[i].left <= x /\ x <= document[i].left + document[i].width
                  /\ document[i].top <= y /\ y <= document[i].top + document[i].height}
  IN IF under = {} THEN 0
     ELSE document[CHOOSE i \in under : \A j \in under : j <= i].nid

\* nid of the node the selector selects now, 0 when none or when the page rejects it
selected(document, sel) ==
  LET element == IF validCSS(sel) THEN querySelector(document, sel) ELSE 0
  IN IF element # 0 THEN document[element].nid ELSE 0

dispatched(types, target) ==
  [k \in 1..Len(types) |-> [type |-> types[k], target |-> target]]

\* the scripts of lines 912, 1003, 1033 and 1052 declare `const element` at their top
\* level: Runtime.evaluate keeps the declaration in the page's global scope, and a
\* later script that declares the name again is rejected with a SyntaxError before
\* any of it runs; the rejection comes back as exceptionDetails, which the callers
\* do not read
scriptRuns ==
  ~declared

fallbackName ==
  IF call.tool = "type_text" THEN "typeFallback" ELSE "fallback"

\* the condition of lines 874 and 978 fails: no coordinates, or no Input domain
SkipTrustedInput ==
  /\ pc = "act"
  /\ \/ ~coordResult.success /\ caps' = caps
     \/ coordResult.success /\ caps' = [caps EXCEPT !.input = FALSE]
  /\ pc' = fallbackName
  /\ UNCHANGED <<page, focus, call, client, selector, discoveryInfo, wait, coordResult,
                 events, outcome, toolResult, mutations, calls, declared,
                 targets, attempts, sessions,
                 formData, geometry, trace, controller>>

\* lines 879-885, 983-989: mousePressed at the coordinates
TrustedPress ==
  /\ pc = "act"
  /\ coordResult.success
  /\ caps' = [caps EXCEPT !.input = TRUE]
  /\ events' = events \o dispatched(<<"mousePressed">>,
                                    hitTest(page, coordResult.x, coordResult.y))
  /\ focus' = hitTest(page, coordResult.x, coordResult.y)
  /\ attempts' = Append(attempts, "trusted")
  /\ pc' = "release"
  /\ UNCHANGED <<page, call, client, selector, discoveryInfo, wait, coordResult, outcome,
                 toolResult, mutations, calls, declared, targets, sessions,
                 formData, geometry, trace, controller>>

\* mousePressed throws: the catch of lines 904, 1025 falls through to the fallback
TrustedPressThrows ==
  /\ pc = "act"
  /\ coordResult.success
  /\ caps' = [caps EXCEPT !.input = TRUE]
  /\ attempts' = Append(attempts, "trusted")
  /\ pc' = fallbackName
  /\ UNCHANGED <<page, focus, call, client, selector, discoveryInfo, wait, coordResult,
                 events, outcome, toolResult, mutations, calls, declared,
                 targets, sessions,
                 formData, geometry, trace, controller>>

trustedMethod ==
  <<"CDP_Input_API_via", coordResult.method>>

simulatedMethod ==
  <<"JavaScript_fallback_from", coordResult.method>>

returned(method) ==
  [NoOutcome EXCEPT !.state = "returned", !.success = TRUE, !.method = method]

\* mouseReleased without the return of lines 895-902: the fallback runs as well
TrustedRelease_fallsThrough ==
  /\ pc = "release"
  /\ events' = events \o dispatched(<<"mouseReleased">>,
                                    hitTest(page, coordResult.x, coordResult.y))
  /\ IF call.tool = "click_element"
     THEN pc' = "fallback" /\ UNCHANGED outcome
     ELSE pc' = (IF call.clear THEN "clear" ELSE "insertText") /\ UNCHANGED outcome
  /\ UNCHANGED <<page, focus, call, client, caps, selector, discoveryInfo, wait,
                 coordResult, toolResult, mutations, calls, declared,
                 targets, attempts, sessions,
                 formData, geometry, trace, controller>>

\* lines 887-902: mouseReleased, then clickElement returns its trusted-path result;
\* lines 991-997: typeText goes on to clear and insert
TrustedRelease ==
  /\ pc = "release"
  /\ events' = events \o dispatched(<<"mouseReleased">>,
                                    hitTest(page, coordResult.x, coordResult.y))
  /\ IF call.tool = "click_element"
     THEN pc' = "finally" /\ outcome' = returned(trustedMethod)
     ELSE pc' = (IF call.clear THEN "clear" ELSE "insertText") /\ UNCHANGED outcome
  /\ UNCHANGED <<page, focus, call, client, caps, selector, discoveryInfo, wait,
                 coordResult, toolResult, mutations, calls, declared,
                 targets, attempts, sessions,
                 formData, geometry, trace, controller>>

\* mouseReleased throws after the press was delivered
TrustedReleaseThrows ==
  /\ pc = "release"
  /\ pc' = fallbackName
  /\ UNCHANGED <<page, focus, call, client, caps, selector, discoveryInfo, wait,
                 coordResult, events, outcome, toolResult, mutations, calls, declared,
                 targets, attempts, sessions,
                 formData, geometry, trace, controller>>

\* the fallback script with click dispatched last, after pointerup
clickScript_clickLast ==
  << [do |-> "scrollIntoView", type |-> "", bubbles |-> FALSE],
     [do |-> "dispatchEvent", type |-> "pointerover", bubbles |-> TRUE],
     [do |-> "dispatchEvent", type |-> "pointerdown", bubbles |-> TRUE],
     [do |-> "dispatchEvent", type |-> "mousedown", bubbles |-> TRUE],
     [do |-> "dispatchEvent", type |-> "mouseup", bubbles |-> TRUE],
     [do |-> "dispatchEvent", type |-> "pointerup", bubbles |-> TRUE],
     [do |-> "dispatchEvent", type |-> "click", bubbles |-> TRUE] >>

\* the statements of the fallback script that act on the element (lines 914-922):
\* it is scrolled into view, then six events are built and dispatched on it
clickScript ==
  << [do |-> "scrollIntoView", type |-> "", bubbles |-> FALSE],
     [do |-> "dispatchEvent", type |-> "pointerover", bubbles |-> TRUE],
     [do |-> "dispatchEvent", type |-> "pointerdown", bubbles |-> TRUE],
     [do |-> "dispatchEvent", type |-> "mousedown", bubbles |-> TRUE],
     [do |-> "dispatchEvent", type |-> "mouseup", bubbles |-> TRUE],
     [do |-> "dispatchEvent", type |-> "click", bubbles |-> TRUE],
     [do |-> "dispatchEvent", type |-> "pointerup", bubbles |-> TRUE] >>

\* the types of the events a script dispatches, in the order of its statements
dispatchedTypes(script) ==
  LET calls_ == SelectSeq(script, LAMBDA s : s.do = "dispatchEvent")
  IN [k \in 1..Len(calls_) |-> calls_[k].type]

\* clickElement, lines 910-934: the simulated sequence on the node the selector
\* selects now, if any; the result reports success either way
ClickFallback ==
  /\ pc = "fallback"
  /\ declared' = TRUE
  /\ LET ran == IF scriptRuns /\ selected(page, selector) # 0 THEN clickScript ELSE <<>>
     IN /\ events' = events \o dispatched(dispatchedTypes(ran), selected(page, selector))
        /\ trace' = Append(trace, [op |-> "evaluate", by |-> "clickElement fallback",
                                   selector |-> selector, arg |-> callerString,
                                   ran |-> ran])
  /\ outcome' = returned(simulatedMethod)
  /\ attempts' = Append(attempts, "simulated")
  /\ pc' = "finally"
  /\ UNCHANGED <<page, focus, call, client, caps, selector, discoveryInfo, wait,
                 coordResult, toolResult, mutations, calls, targets, sessions,
                 formData, geometry, controller>>

\* a fallback whose failure sends the call back into the fallback
FallbackThrows_retries ==
  /\ pc \in {"fallback", "typeFallback"}
  /\ Len(attempts) < 3
  /\ attempts' = Append(attempts, "simulated")
  /\ UNCHANGED <<page, focus, call, pc, client, caps, selector, discoveryInfo, wait,
                 coordResult, events, outcome, toolResult, mutations, calls, declared,
                 targets, sessions,
                 formData, geometry, trace, controller>>

\* the evaluation of a fallback script fails at the protocol level: the error
\* leaves the callback
FallbackThrows ==
  /\ pc \in {"fallback", "typeFallback"}
  /\ outcome' = threw("Protocol error")
  /\ attempts' = Append(attempts, "simulated")
  /\ pc' = "finally"
  /\ UNCHANGED <<page, focus, call, client, caps, selector, discoveryInfo, wait,
                 coordResult, events, toolResult, mutations, calls, declared,
                 targets, sessions,
                 formData, geometry, trace, controller>>

\* the document with the value of node nid replaced
withValue(document, nid, v) ==
  [k \in 1..Len(document) |->
     IF document[k].nid = nid THEN [document[k] EXCEPT !.value = v] ELSE document[k]]

valueOf(document, nid) ==
  document[CHOOSE k \in 1..Len(document) : document[k].nid = nid].value

editable(document, nid) ==
  \E k \in 1..Len(document) :
    document[k].nid = nid /\ document[k].tag \in {"input", "textarea"}

\* typeText, lines 1000-1010: the value of the selected node is emptied
TypeClear ==
  /\ pc = "clear"
  /\ declared' = TRUE
  /\ IF scriptRuns /\ selected(page, selector) # 0
     THEN /\ page' = withValue(page, selected(page, selector), "")
          /\ events' = events \o dispatched(<<"input">>, selected(page, selector))
     ELSE UNCHANGED <<page, events>>
  /\ pc' = "insertText"
  /\ trace' = Append(trace, asked("evaluate", "typeText clear", selector, callerString))
  /\ UNCHANGED <<focus, call, client, caps, selector, discoveryInfo, wait, coordResult,
                 outcome, toolResult, mutations, calls,
                 targets, attempts, sessions,
                 formData, geometry, controller>>

\* v with text inserted after its first p characters
insertAt(v, p, text) ==
  SubSeq(v, 1, p) \o text \o SubSeq(v, p + 1, Len(v))

\* where the click of lines 983-997 leaves the caret: it lands to the right of the
\* short values these documents hold, so the caret is at the end of the value
caretAfterClick(v) ==
  Len(v)

\* typeText, lines 1013-1023: Input.insertText puts the text at the caret of the
\* focused node; the method returns its trusted-path result
InsertText ==
  /\ pc = "insertText"
  /\ IF editable(page, focus)
     THEN page' = withValue(page, focus,
                            insertAt(valueOf(page, focus),
                                     caretAfterClick(valueOf(page, focus)),
                                     call.text))
     ELSE UNCHANGED page
  /\ events' = events \o dispatched(<<"insertText">>, focus)
  /\ outcome' = returned(trustedMethod)
  /\ pc' = "finally"
  /\ UNCHANGED <<focus, call, client, caps, selector, discoveryInfo, wait, coordResult,
                 toolResult, mutations, calls, declared,
                 targets, attempts, sessions,
                 formData, geometry, trace, controller>>

\* Input.insertText throws: the catch of line 1025 falls through to the fallback
InsertTextThrows ==
  /\ pc = "insertText"
  /\ pc' = "typeFallback"
  /\ UNCHANGED <<page, focus, call, client, caps, selector, discoveryInfo, wait,
                 coordResult, events, outcome, toolResult, mutations, calls, declared,
                 targets, attempts, sessions,
                 formData, geometry, trace, controller>>

\* typeText, lines 1031-1047: the value of the selected node is assigned the text
TypeFallback ==
  /\ pc = "typeFallback"
  /\ declared' = TRUE
  /\ IF scriptRuns /\ selected(page, selector) # 0
     THEN /\ page' = withValue(page, selected(page, selector), call.text)
          /\ focus' = selected(page, selector)
          /\ events' = events \o dispatched(<<"focus", "input", "change", "keyup">>,
                                            selected(page, selector))
     ELSE UNCHANGED <<page, focus, events>>
  /\ attempts' = Append(attempts, "simulated")
  /\ pc' = "commit"
  /\ trace' = Append(trace, asked("evaluate", "typeText fallback", selector, callerString))
  /\ UNCHANGED <<call, client, caps, selector, discoveryInfo, wait, coordResult, outcome,
                 toolResult, mutations, calls, targets, sessions,
                 formData, geometry, controller>>

\* typeText, lines 1050-1068: change and blur on the selected node, then the result
TypeCommit ==
  /\ pc = "commit"
  /\ declared' = TRUE
  /\ events' = IF scriptRuns /\ selected(page, selector) # 0
               THEN events \o dispatched(<<"change", "blur">>, selected(page, selector))
               ELSE events
  /\ outcome' = returned(simulatedMethod)
  /\ pc' = "finally"
  /\ trace' = Append(trace, asked("evaluate", "typeText commit", selector, callerString))
  /\ UNCHANGED <<page, focus, call, client, caps, selector, discoveryInfo, wait,
                 coordResult, toolResult, mutations, calls,
                 targets, attempts, sessions,
                 formData, geometry, controller>>

(***************************************************************************)
(* analyzeForm.  The documents list the controls of a page; a <form> is    *)
(* the parent of the nodes whose parent is "form".                         *)
(***************************************************************************)
\* line 1121: document.querySelector(formSelector) finds a node
formFound(document, formSelector) ==
  IF formSelector = "form"
  THEN \E i \in 1..Len(document) : document[i].parent = "form"
  ELSE validCSS(formSelector) /\ querySelector(document, formSelector) # 0

\* line 1125: form.querySelectorAll('input, button, textarea, select'); a control
\* has no such descendants
formControls(document, formSelector) ==
  IF formSelector = "form"
  THEN {i \in 1..Len(document) :
          /\ document[i].parent = "form"
          /\ document[i].tag \in {"input", "button", "textarea", "select"}}
  ELSE {}

\* analyzeFormInternal, lines 1116-1160: the value of the evaluated script, which is
\* null without a form and undefined when the page rejects the selector; null when
\* Runtime.evaluate itself threw (line 1157)
analyzeFormInternal(document, formSelector, evaluates) ==
  IF evaluates /\ validCSS(formSelector) /\ formFound(document, formSelector)
  THEN [state |-> "data", elements |-> Cardinality(formControls(document, formSelector))]
  ELSE [state |-> "null", elements |-> 0]

\* analyzeForm, line 1106: analyzeFormInternal is awaited
AnalyzeFormInternal ==
  /\ pc = "analyze"
  /\ \E evaluates \in BOOLEAN :
       formData' = analyzeFormInternal(page, call.selector, evaluates)
  /\ pc' = "analyzed"
  /\ trace' = IF formData'.state = "data" \/ ~validCSS(call.selector)
                  \/ ~formFound(page, call.selector)
               THEN Append(trace, asked("evaluate", "analyzeFormInternal",
                                        call.selector, call.selector))
               ELSE trace
  /\ UNCHANGED <<page, focus, call, client, caps, selector, discoveryInfo, wait,
                 coordResult, events, outcome, toolResult, mutations, calls, declared,
                 targets, attempts, sessions, geometry, controller>>

\* analyzeForm handing on whatever analyzeFormInternal returned
AnalyzeForm_returnsNull ==
  /\ pc = "analyzed"
  /\ outcome' = [NoOutcome EXCEPT !.state = "returned", !.success = formData.state = "data"]
  /\ pc' = "finally"
  /\ UNCHANGED <<page, focus, call, client, caps, selector, discoveryInfo, wait,
                 coordResult, events, toolResult, mutations, calls, declared,
                 targets, attempts, sessions,
                 formData, geometry, trace, controller>>

\* analyzeForm, lines 1107-1110: without form data the method throws, else it
\* returns the data
AnalyzeForm ==
  /\ pc = "analyzed"
  /\ outcome' = IF formData.state = "data"
                THEN [NoOutcome EXCEPT !.state = "returned", !.success = TRUE]
                ELSE threw("Form not found with selector")
  /\ pc' = "finally"
  /\ UNCHANGED <<page, focus, call, client, caps, selector, discoveryInfo, wait,
                 coordResult, events, toolResult, mutations, calls, declared,
                 targets, attempts, sessions,
                 formData, geometry, trace, controller>>

\* getElementText, lines 1078-1100: the script reads the selected node; without a
\* value to return the method throws
GetText ==
  /\ pc = "getText"
  /\ declared' = TRUE
  /\ outcome' = IF scriptRuns /\ selected(page, selector) # 0
                THEN [NoOutcome EXCEPT !.state = "returned", !.success = TRUE]
                ELSE threw("Element not found")
  /\ pc' = "finally"
  /\ trace' = Append(trace, asked("evaluate", "getElementText", selector, callerString))
  /\ UNCHANGED <<page, focus, call, client, caps, selector, discoveryInfo, wait,
                 coordResult, events, toolResult, mutations, calls,
                 targets, attempts, sessions,
                 formData, geometry, controller>>

\* an element tool handler without the try / catch of its case: the error leaves
\* the handler
ToolHandler_rethrows ==
  /\ pc = "handler"
  /\ toolResult' = IF outcome.state = "returned"
                   THEN [state |-> "returned", success |-> TRUE, error |-> "",
                         exists |-> outcome.exists, visible |-> outcome.visible,
                         selector |-> selector, defined |-> outcome.defined]
                   ELSE [state |-> "threw", success |-> FALSE, error |-> outcome.error,
                         exists |-> FALSE, visible |-> FALSE, selector |-> "",
                         defined |-> {}]
  /\ pc' = "done"
  /\ UNCHANGED <<page, focus, call, client, caps, selector, discoveryInfo, wait,
                 coordResult, events, outcome, mutations, calls, declared,
                 targets, attempts, sessions,
                 formData, geometry, trace, controller>>

\* handleElementTool, lines 177-284: a returned result becomes success:true with
\* the fields of the result, a thrown error becomes success:false with its message
ToolHandler ==
  /\ pc = "handler"
  /\ toolResult' = IF outcome.state = "returned"
                   THEN [state |-> "returned", success |-> TRUE, error |-> "",
                         exists |-> outcome.exists, visible |-> outcome.visible,
                         selector |-> selector, defined |-> outcome.defined]
                   ELSE [state |-> "returned", success |-> FALSE, error |-> outcome.error,
                         exists |-> FALSE, visible |-> FALSE, selector |-> call.selector,
                         defined |-> {}]
  /\ pc' = "done"
  /\ UNCHANGED <<page, focus, call, client, caps, selector, discoveryInfo, wait,
                 coordResult, events, outcome, mutations, calls, declared,
                 targets, attempts, sessions,
                 formData, geometry, trace, controller>>

\* handleToolCall, lines 39-50: an error no handler caught becomes the standard
\* failure result, which carries the tool name and the arguments
HandleToolCallCatch ==
  /\ pc = "catch"
  /\ toolResult' = [state |-> "returned", success |-> FALSE, error |-> outcome.error,
                    exists |-> FALSE, visible |-> FALSE, selector |-> "",
                         defined |-> {}]
  /\ pc' = "done"
  /\ UNCHANGED <<page, focus, call, client, caps, selector, discoveryInfo, wait,
                 coordResult, events, outcome, mutations, calls, declared,
                 targets, attempts, sessions,
                 formData, geometry, trace, controller>>

Next ==
  \/ StartCall
  \/ TabCloses
  \/ Navigate
  \/ NavigateThrows
  \/ LoadEventFired
  \/ GetText
  \/ AnalyzeFormInternal
  \/ AnalyzeForm
  \/ HandleToolCallCatch
  \/ WithTabGetTargets
  \/ WithTabConnect
  \/ WithTabConnectFails
  \/ WithTabEnable
  \/ WithTabEnableThrows
  \/ Discover
  \/ Validate
  \/ WaitBegin
  \/ WaitTimeout
  \/ PageChanges
  \/ PageChangesObserved
  \/ PageChangesUnobserved
  \/ ExistsFallback
  \/ Locate
  \/ SkipTrustedInput
  \/ TrustedPress
  \/ TrustedPressThrows
  \/ TrustedRelease
  \/ TrustedReleaseThrows
  \/ ClickFallback
  \/ FallbackThrows
  \/ TypeClear
  \/ InsertText
  \/ InsertTextThrows
  \/ TypeFallback
  \/ TypeCommit
  \/ WithTabFinally
  \/ ToolHandler

Spec ==
  Init /\ [][Next]_vars

\* the timer of waitForElement (setTimeout, line 786) fires once armed
FairSpec ==
  Spec /\ WF_vars(WaitTimeout)

\* what the server does once the browser has answered the command it awaits, and
\* the timers the code arms; the page's own events (a load event, a change of the
\* document, a tab that closes) are not among them
Step ==
  \/ WithTabGetTargets
  \/ WithTabConnect
  \/ WithTabConnectFails
  \/ WithTabEnable
  \/ WithTabEnableThrows
  \/ Discover
  \/ Validate
  \/ WaitBegin
  \/ WaitTimeout
  \/ ExistsFallback
  \/ GetText
  \/ AnalyzeFormInternal
  \/ AnalyzeForm
  \/ Navigate
  \/ NavigateThrows
  \/ Locate
  \/ SkipTrustedInput
  \/ TrustedPress
  \/ TrustedPressThrows
  \/ TrustedRelease
  \/ TrustedReleaseThrows
  \/ ClickFallback
  \/ FallbackThrows
  \/ TypeClear
  \/ InsertText
  \/ InsertTextThrows
  \/ TypeFallback
  \/ TypeCommit
  \/ WithTabFinally
  \/ ToolHandler
  \/ HandleToolCallCatch

\* every command the browser receives is answered and every armed timer fires
LiveSpec ==
  Spec /\ WF_vars(Step)

(***************************************************************************)
(* discoverBestSelector on its own: a document, a hint, one resolution.    *)
(***************************************************************************)
InitDiscover ==
  /\ page \in Documents
  /\ call \in [tool : {"discoverBestSelector"}, tab_id : {"tab1"}, selector : Hints,
               text : {""}, clear : {TRUE}, elementType : {"button", "input"},
               url : {""}]
  /\ pc = "discover"
  /\ Idle

PageChangesBeforeDiscover ==
  /\ pc = "discover"
  /\ mutations < MaxMutations
  /\ page' \in PageMutations(page)
  /\ mutations' = mutations + 1
  /\ UNCHANGED <<focus, call, pc, client, caps, selector, discoveryInfo, wait,
                 coordResult, events, outcome, toolResult, calls, declared,
                 targets, attempts, sessions,
                 formData, geometry, trace, controller>>

DiscoverCall ==
  /\ pc = "discover"
  /\ discoveryInfo' = discoverBestSelector(page, call.selector, call.elementType)
  /\ pc' = "discovered"
  /\ trace' = trace \o discoveryQueries(page, call.selector, call.elementType)
  /\ UNCHANGED <<page, focus, call, client, caps, selector, wait, coordResult, events,
                 outcome, toolResult, mutations, calls, declared,
                 targets, attempts, sessions,
                 formData, geometry, controller>>

NextDiscover ==
  \/ PageChangesBeforeDiscover
  \/ DiscoverCall

SpecDiscover ==
  InitDiscover /\ [][NextDiscover]_vars

(***************************************************************************)
(* withTab invocations side by side: each await lets another invocation    *)
(* run.  `client` is a local variable of the invocation (line 279).        *)
(***************************************************************************)
\* the tabs the browser shows while the invocations run
ConcurrentTargets ==
  {"tab1", "tab2"}

InitConcurrent ==
  /\ page = <<SubmitButton>>
  /\ call = NoCall
  /\ pc = "idle"
  /\ focus = 0
  /\ client = "null"
  /\ caps = [dom |-> FALSE, input |-> FALSE]
  /\ selector = ""
  /\ discoveryInfo = null
  /\ wait = NoWait
  /\ coordResult = NoCoord
  /\ events = <<>>
  /\ outcome = NoOutcome
  /\ toolResult = NoToolResult
  /\ mutations = 0
  /\ calls = 0
  /\ declared = FALSE
  /\ targets = ConcurrentTargets
  /\ attempts = <<>>
  /\ sessions = NoSessions
  /\ formData = NoForm
  /\ geometry = NoGeometry
  /\ trace = <<>>
  /\ controller = Constructed

\* the variables of the single call, which no invocation of this part touches
callVars ==
  <<page, focus, call, pc, client, caps, selector, discoveryInfo, wait, coordResult,
    events, outcome, toolResult, mutations, calls, declared, targets, attempts,
    formData, geometry, trace, controller>>

\* a connection the browser has accepted
connection(tabId, o) ==
  [tab |-> tabId, state |-> "open", openedBy |-> o, usedBy |-> {}, closedBy |-> {}]

\* withTab is called: `let client = null` (line 279), then getTargets is awaited
OpStart ==
  \E o \in Ops, tabId \in ConcurrentTargets \cup {"tab9"} :
    /\ sessions.op[o].pc = "idle"
    /\ sessions' = [sessions EXCEPT !.op[o] = [pc |-> "getTargets", tabId |-> tabId,
                                                client |-> 0]]
    /\ UNCHANGED callVars

\* lines 281-286
OpGetTargets ==
  \E o \in Ops :
    /\ sessions.op[o].pc = "getTargets"
    /\ sessions' = [sessions EXCEPT !.op[o].pc =
                       IF sessions.op[o].tabId \in targets THEN "connect" ELSE "finally"]
    /\ UNCHANGED callVars

\* line 288 with a pool: an open connection to the tab is taken when there is one
OpConnect_pooled ==
  \E o \in Ops :
    /\ sessions.op[o].pc = "connect"
    /\ LET open == {k \in 1..Len(sessions.connections) :
                      /\ sessions.connections[k].tab = sessions.op[o].tabId
                      /\ sessions.connections[k].state = "open"}
       IN IF open # {}
          THEN sessions' = [sessions EXCEPT !.op[o].pc = "callback",
                                            !.op[o].client = firstOf(open)]
          ELSE sessions' =
                 [sessions EXCEPT
                    !.connections = Append(@, connection(sessions.op[o].tabId, o)),
                    !.op[o].pc = "callback",
                    !.op[o].client = Len(sessions.connections) + 1]
    /\ UNCHANGED callVars

\* line 288: CDP({target}) opens a connection of its own for this invocation
OpConnect ==
  \E o \in Ops :
    /\ sessions.op[o].pc = "connect"
    /\ sessions' =
         [sessions EXCEPT
            !.connections = Append(@, connection(sessions.op[o].tabId, o)),
            !.op[o].pc = "callback",
            !.op[o].client = Len(sessions.connections) + 1]
    /\ UNCHANGED callVars

\* lines 289-301: Page.enable, Runtime.enable and the commands of the callback go
\* through the invocation's client
OpCallback ==
  \E o \in Ops :
    /\ sessions.op[o].pc = "callback"
    /\ sessions' = [sessions EXCEPT
                      !.connections[sessions.op[o].client].usedBy = @ \cup {o},
                      !.op[o].pc = "finally"]
    /\ UNCHANGED callVars

\* lines 303-307: the invocation closes its client, if it opened one
OpFinally ==
  \E o \in Ops :
    /\ sessions.op[o].pc = "finally"
    /\ IF sessions.op[o].client # 0
       THEN sessions' = [sessions EXCEPT
                           !.connections[sessions.op[o].client].state = "closed",
                           !.connections[sessions.op[o].client].closedBy = @ \cup {o},
                           !.op[o].pc = "settled"]
       ELSE sessions' = [sessions EXCEPT !.op[o].pc = "settled"]
    /\ UNCHANGED callVars

NextConcurrent ==
  \/ OpStart
  \/ OpGetTargets
  \/ OpConnect
  \/ OpCallback
  \/ OpFinally

SpecConcurrent ==
  InitConcurrent /\ [][NextConcurrent]_vars

(***************************************************************************)
(* getElementCoordinates on its own: the three reads answer with anything  *)
(* the protocol can answer, a transformed or an empty box included.        *)
(***************************************************************************)
\* quads x1, y1, ..., x4, y4: rectangles, parallelograms, quads that are neither
\* (a perspective transform) and quads without area (a node of width or height 0)
Quads ==
  { <<x1, 0, x2, 0, x3, y3, x4, y3>> :
      x1 \in {0, 1}, x2 \in {0, 10}, x3 \in {0, 10, 13}, x4 \in {0, 3}, y3 \in {0, 6} }

QuadAnswers ==
  {threwAnswer, NoAnswer} \cup {quadAnswer(quad) : quad \in Quads}

BoxAnswers ==
  {threwAnswer, NoAnswer, quadAnswer(<<0, 0, 10, 0, 10, 6, 0, 6>>),
   quadAnswer(<<0, 0, 0, 0, 0, 6, 0, 6>>), quadAnswer(<<1, 0, 10, 0, 13, 6, 3, 6>>)}

RectAnswers ==
  {threwRect, NoRect}
  \cup {rectAnswer([left |-> 0, top |-> 0, width |-> w, height |-> h]) :
          w \in {0, 10}, h \in {0, 6}}

InitCoordinates ==
  /\ page = <<>>
  /\ call = NoCall
  /\ pc = "locate"
  /\ focus = 0
  /\ client = "open"
  /\ caps = [dom |-> TRUE, input |-> FALSE]
  /\ selector = ""
  /\ discoveryInfo = null
  /\ wait = NoWait
  /\ coordResult = NoCoord
  /\ events = <<>>
  /\ outcome = NoOutcome
  /\ toolResult = NoToolResult
  /\ mutations = 0
  /\ calls = 0
  /\ declared = FALSE
  /\ targets = LiveTargets
  /\ attempts = <<>>
  /\ sessions = NoSessions
  /\ formData = NoForm
  /\ geometry \in [quads : QuadAnswers, box : BoxAnswers, rect : RectAnswers]
  /\ trace = <<>>
  /\ controller = Constructed

\* getElementCoordinates is called and returns
GetElementCoordinates ==
  /\ pc = "locate"
  /\ coordResult' = coordinatesFrom(geometry)
  /\ pc' = "act"
  /\ UNCHANGED <<page, focus, call, client, caps, selector, discoveryInfo, wait, events,
                 outcome, toolResult, mutations, calls, declared,
                 targets, attempts, sessions,
                 formData, geometry, trace, controller>>

NextCoordinates ==
  GetElementCoordinates

SpecCoordinates ==
  InitCoordinates /\ [][NextCoordinates]_vars

(***************************************************************************)
(* Properties.                                                             *)
(***************************************************************************)
\* the first node the selector selects exists and is visible
firstHitVisible(document, sel) ==
  /\ validCSS(sel)
  /\ querySelectorAll(document, sel) # {}
  /\ isVisible(document[firstOf(querySelectorAll(document, sel))])

\* some node the selector selects is visible
someHitVisible(document, sel) ==
  /\ validCSS(sel)
  /\ \E i \in querySelectorAll(document, sel) : isVisible(document[i])

\* the hint carries one of the four marks of a selector: . # [ :
marked(hint) ==
  \E m \in {".", "#", "[", ":"} : includes(hint, m)

Resolved ==
  pc = "discovered"

\* class, id, attribute, pseudo-class, tag-only and combinator forms
LiteralSelectors ==
  { ".btn", "#em", "input[type=\"email\"]", "button:last-of-type", "button",
    "form > button" }

\* C8 as stated: every literal selector that selects a visible node is returned
\* unchanged with provenance exact
C8_AnyLiteralSelectorExact ==
  (Resolved /\ call.selector \in LiteralSelectors /\ someHitVisible(page, call.selector))
    => (discoveryInfo.selector = call.selector /\ discoveryInfo.confidence = "exact")

\* C8 amended: a valid selector that contains '.', '#', '[' or ':' and whose first
\* selected node (document order) is visible is returned unchanged with provenance exact
C8_MarkedSelectorExact ==
  (Resolved /\ call.selector # "" /\ marked(call.selector)
     /\ firstHitVisible(page, call.selector))
    => (discoveryInfo.selector = call.selector /\ discoveryInfo.confidence = "exact")

C8_Witness ==
  /\ Resolved
  /\ call.selector = "button:last-of-type"
  /\ Len(page) = 2
  /\ discoveryInfo.confidence = "exact"

\* the page's only nodes are visible <button type="submit"> controls
onlySubmitButtons(document) ==
  /\ Len(document) > 0
  /\ \A i \in 1..Len(document) :
       document[i].tag = "button" /\ document[i].type = "submit" /\ isVisible(document[i])

submitExample ==
  (Resolved /\ call.selector = "submit" /\ onlySubmitButtons(page))
    => /\ discoveryInfo.confidence = "pattern-match"
       /\ querySelectorAll(page, discoveryInfo.selector) # {}

\* C9 as stated: a classified hint resolves to the earliest pattern of its category
\* that selects some visible node, with provenance pattern-match
C9_EarliestPatternSomeVisible ==
  /\ (Resolved /\ classify(call.selector) # "none")
       => LET patterns == SELECTOR_PATTERNS(classify(call.selector))
              ok == {k \in 1..Len(patterns) : someHitVisible(page, patterns[k])}
          IN ok # {} => /\ discoveryInfo.selector = patterns[firstOf(ok)]
                        /\ discoveryInfo.confidence = "pattern-match"
  /\ submitExample

\* C9 amended: a classified hint that is not itself resolved as an exact selector
\* resolves to the earliest pattern of its category whose first selected node is
\* visible, with provenance pattern-match, and to null when there is none
C9_EarliestPatternFirstHitVisible ==
  /\ (Resolved /\ classify(call.selector) # "none"
        /\ ~(marked(call.selector) /\ firstHitVisible(page, call.selector)))
       => LET patterns == SELECTOR_PATTERNS(classify(call.selector))
              ok == {k \in 1..Len(patterns) : firstHitVisible(page, patterns[k])}
          IN IF ok = {} THEN discoveryInfo = null
             ELSE /\ discoveryInfo.selector = patterns[firstOf(ok)]
                  /\ discoveryInfo.confidence = "pattern-match"
                  /\ discoveryInfo.elementType = classify(call.selector)
  /\ submitExample

C9_Witness ==
  /\ Resolved
  /\ call.selector = "submit"
  /\ Len(page) = 2 /\ ~isVisible(page[1]) /\ isVisible(page[2])
  /\ page[1].type = "submit" /\ page[2].type = "submit"
  /\ discoveryInfo.selector = "form button:last-of-type"

\* the page shows <input type="email" id="em">
emailInputVisible(document) ==
  \E i \in 1..Len(document) :
    /\ document[i].tag = "input" /\ document[i].type = "email" /\ document[i].id = "em"
    /\ isVisible(document[i])

C1_ConnectionClosedWhenSettled ==
  pc \in {"handler", "done"} => client # "open"

C1_Witness ==
  /\ pc = "done"
  /\ client = "closed"
  /\ outcome.state = "threw"
  /\ outcome.error = "Element not found or not visible"
  /\ wait.observer = "disconnected"

C3_ClickOnAbsentNodeFails ==
  (/\ pc = "done" /\ call.tool = "click_element" /\ call.tab_id \in LiveTargets
   /\ outcome.error \notin {"Connection failed", "Protocol error"}
   /\ mutations = 0
   /\ marked(call.selector) /\ validCSS(call.selector)
   /\ querySelectorAll(page, call.selector) = {})
    => (~toolResult.success /\ toolResult.error = "Element not found or not visible")

eventTypes ==
  [k \in 1..Len(events) |-> events[k].type]

trustedPair ==
  <<"mousePressed", "mouseReleased">>

simulatedSequence ==
  <<"pointerover", "pointerdown", "mousedown", "mouseup", "click", "pointerup">>

clickReturned ==
  /\ call.tool = "click_element"
  /\ outcome.state = "returned"

\* C4 as stated (on a page that does not change during the call): a click that
\* returns has dispatched exactly one path, whole, and its method names it
C4_ExactlyOnePath ==
  (clickReturned /\ mutations = 0)
    => \/ eventTypes = trustedPair /\ outcome.method[1] = "CDP_Input_API_via"
       \/ eventTypes = simulatedSequence /\ outcome.method[1] = "JavaScript_fallback_from"

\* C4 amended: the method names the path that completed.  A CDP_Input_API result means
\* exactly the press and release were dispatched; a JavaScript_fallback result means
\* the simulated script was evaluated (dispatching its sequence when the page accepted
\* it and the node was still selected) after the trusted path was skipped or threw, so
\* a press without its release may precede the sequence; the two paths never both
\* complete
C4_MethodNamesCompletedPath ==
  clickReturned
    => \/ eventTypes = trustedPair /\ outcome.method[1] = "CDP_Input_API_via"
       \/ /\ outcome.method[1] = "JavaScript_fallback_from"
          /\ eventTypes \in { <<>>, simulatedSequence, <<"mousePressed">>,
                              <<"mousePressed">> \o simulatedSequence }

C4_Witness ==
  /\ clickReturned
  /\ pc = "done"
  /\ eventTypes = <<"mousePressed">> \o simulatedSequence
  /\ outcome.method[1] = "JavaScript_fallback_from"

initialValue(nid) ==
  IF nid = EmailInput.nid THEN EmailInput.value ELSE ""

\* C6 as stated: typing with clear:false leaves the input's value equal to its
\* former value followed by the text, on either path
C6_TypeWithoutClearAppends ==
  (/\ pc = "done" /\ call.tool = "type_text" /\ ~call.clear /\ calls = 1
   /\ outcome.state = "returned"
   /\ editable(page, selected(page, selector)))
    => valueOf(page, selected(page, selector))
         = initialValue(selected(page, selector)) \o call.text

\* C7 as stated: a typeText call that returns success has dispatched change and
\* blur as its last interaction
C7_TypeEndsWithChangeBlur ==
  (call.tool = "type_text" /\ outcome.state = "returned" /\ outcome.success)
    => /\ Len(events) >= 2
       /\ events[Len(events) - 1].type = "change"
       /\ events[Len(events)].type = "blur"

\* the call ran without a failure of the browser or of the protocol
protocolHeld ==
  outcome.error \notin {"Tab not found", "Connection failed", "Protocol error"}

\* the error is one of the three validateSelector throws
invalidSelectorError(error) ==
  startsWith(error, "Invalid selector")

\* C11 as stated (on a page that does not change during the call): an element tool
\* called with an empty string, a string that contains javascript: or <script, or a
\* string of more than 1000 characters fails with an invalid-selector error and
\* delivers no input to any node
C11_RejectedStringNeverActs ==
  (/\ pc = "done" /\ call.tool \in ElementTools /\ protocolHeld /\ mutations = 0
   /\ validateSelector(call.selector) # "valid")
    => /\ ~toolResult.success
       /\ invalidSelectorError(toolResult.error)
       /\ events = <<>>

\* C20 as stated: a selector the page's selector engine rejects (and that carries
\* no marker and is not too long) fails with an invalid-selector error, distinct
\* from element-not-found, and no wait is started for it
C20_InvalidCssRejected ==
  (/\ pc = "done" /\ call.tool \in ElementTools /\ protocolHeld
   /\ validateSelector(call.selector) = "valid"
   /\ looksLikeSelector(call.selector)
   /\ ~validCSS(call.selector))
    => /\ ~toolResult.success
       /\ invalidSelectorError(toolResult.error)
       /\ toolResult.error # "Element not found or not visible"
       /\ wait = NoWait

\* C12: every call settles with a result object and no error leaves handleToolCall;
\* an error thrown by a handler or by the controller becomes success:false with the
\* error's message, and the failure result of an element tool carries the selector
\* the caller gave
C12_EveryCallSettlesWithResult ==
  /\ toolResult.state \in {"pending", "returned"}
  /\ pc = "done"
       => /\ toolResult.state = "returned"
          /\ outcome.state = "threw"
               => /\ ~toolResult.success
                  /\ toolResult.error = outcome.error
                  /\ toolResult.error # ""
                  /\ call.tool \in ElementTools => toolResult.selector = call.selector

C12_Witness ==
  /\ pc = "done"
  /\ call.tool = "click_element"
  /\ outcome.state = "threw"
  /\ selector # call.selector
  /\ ~toolResult.success
  /\ toolResult.selector = call.selector

\* C13: withTab looks its tab id up in the target list as the browser reports it
\* during that call; an id that is not in it makes the call fail with the
\* tab-not-found error, with no connection opened and no part of the callback run;
\* a call starts without a client
C13_UnknownTabFailsBeforeConnecting ==
  /\ [](outcome.error = "Tab not found"
          => /\ client = "null"
             /\ caps = [dom |-> FALSE, input |-> FALSE]
             /\ discoveryInfo = null /\ wait = NoWait /\ coordResult = NoCoord
             /\ events = <<>> /\ attempts = <<>>)
  /\ [][(pc = "getTargets" /\ pc' # "getTargets")
          => IF call.tab_id \in targets
             THEN pc' = "connect" /\ outcome' = outcome /\ client' = "null"
             ELSE pc' = "finally" /\ outcome'.error = "Tab not found" /\ client' = "null"]_vars
  /\ [][calls' # calls => client' = "null"]_vars

C13_Witness ==
  /\ pc = "done"
  /\ call.tab_id \in LiveTargets
  /\ call.tab_id \notin targets
  /\ outcome.error = "Tab not found"
  /\ client = "null"
  /\ ~toolResult.success

\* the node the selector selects has a bounding rectangle of non-zero width and height
selectedHasBox(document, sel) ==
  /\ validCSS(sel)
  /\ querySelector(document, sel) # 0
  /\ getBoundingClientRect(document[querySelector(document, sel)]).width > 0
  /\ getBoundingClientRect(document[querySelector(document, sel)]).height > 0

\* the centre of the bounding rectangle of the node the selector selects
selectedCentre(document, sel) ==
  rectPoint(getBoundingClientRect(document[querySelector(document, sel)]))

\* the events of the trusted path
trustedEvents ==
  {k \in 1..Len(events) : events[k].type \in {"mousePressed", "mouseReleased"}}

\* C14: with both node-tree methods failing, getElementCoordinates returns the
\* centre of the bounding rectangle for a node of non-zero width and height; with
\* all three failing it returns success false and no coordinates, and clickElement
\* then evaluates the simulated sequence and dispatches no coordinate click
C14_CoordinatesDegradeThenFallback ==
  /\ [](pc = "locate"
          => /\ selectedHasBox(page, selector)
                  => getElementCoordinates(page, selector, 2)
                       = [success |-> TRUE, x |-> selectedCentre(page, selector).x,
                          y |-> selectedCentre(page, selector).y,
                          method |-> "JavaScript_getBoundingClientRect"]
             /\ getElementCoordinates(page, selector, 3)
                  = [success |-> FALSE, x |-> -1, y |-> -1,
                     method |-> "all_methods_failed"])
  /\ [](coordResult.method = "all_methods_failed"
          => /\ ~coordResult.success
             /\ trustedEvents = {}
             /\ attempts \in {<<>>, <<"simulated">>})
  /\ []((clickReturned /\ coordResult.method = "all_methods_failed")
          => /\ outcome.method = <<"JavaScript_fallback_from", "all_methods_failed">>
             /\ attempts = <<"simulated">>
             /\ eventTypes \in {<<>>, simulatedSequence})
  /\ [][(pc = "fallback" /\ outcome'.state = "returned" /\ ~declared
           /\ selected(page, selector) # 0)
          => events' = events \o dispatched(simulatedSequence, selected(page, selector))]_vars

C14_Witness ==
  /\ pc = "done"
  /\ clickReturned
  /\ coordResult.method = "all_methods_failed"
  /\ ~coordResult.success
  /\ eventTypes = simulatedSequence
  /\ toolResult.success

\* the order in which a call passes its positions
rank(tool, p) ==
  CASE p = "validate" -> IF validatesFirst(tool) THEN 0 ELSE 6
    [] p = "getTargets" -> 1
    [] p = "connect" -> 2
    [] p = "enable" -> 3
    [] p = "navigate" -> 4
    [] p = "loading" -> 5
    [] p = "analyze" -> 5
    [] p = "analyzed" -> 6
    [] p = "discover" -> 5
    [] p = "wait" -> 7
    [] p = "waiting" -> 8
    [] p = "existsFallback" -> 9
    [] p = "getText" -> 9
    [] p = "locate" -> 9
    [] p = "act" -> 10
    [] p = "release" -> 11
    [] p = "clear" -> 12
    [] p = "insertText" -> 13
    [] p = "fallback" -> 14
    [] p = "typeFallback" -> 14
    [] p = "commit" -> 15
    [] p = "finally" -> 16
    [] p = "handler" -> 17
    [] p = "catch" -> 17
    [] p = "done" -> 18
    [] OTHER -> 0

\* C15: a call enters the trusted path at most once and the simulated fallback at
\* most once, the fallback after the trusted path; when the trusted path threw, the
\* call ends either returning success with a JavaScript_fallback method or throwing
\* the fallback's error; no position of the call is entered a second time
C15_OneFallbackNoRetry ==
  /\ [](attempts \in {<<>>, <<"trusted">>, <<"simulated">>, <<"trusted", "simulated">>})
  /\ []((pc \in {"finally", "handler", "done"} /\ attempts = <<"trusted", "simulated">>)
          => \/ /\ outcome.state = "returned" /\ outcome.success
                /\ outcome.method[1] = "JavaScript_fallback_from"
             \/ outcome.state = "threw" /\ outcome.error = "Protocol error")
  /\ [][(calls' = calls /\ pc' # pc) => rank(call.tool, pc') > rank(call.tool, pc)]_vars
  /\ [][(calls' = calls /\ pc' = pc) => attempts' = attempts]_vars

C15_Witness ==
  /\ pc = "done"
  /\ call.tool = "type_text"
  /\ attempts = <<"trusted", "simulated">>
  /\ outcome.state = "returned"
  /\ outcome.method[1] = "JavaScript_fallback_from"
  /\ toolResult.success

\* C16: whatever the interleaving of the invocations, the client of an invocation
\* is a connection that invocation opened, no connection carries the commands of
\* two invocations, and a connection is closed by the invocation that opened it
\* and by no other
C16_ConnectionsNeverShared ==
  /\ \A o \in Ops :
       sessions.op[o].client # 0
         => /\ sessions.op[o].client \in 1..Len(sessions.connections)
            /\ sessions.connections[sessions.op[o].client].openedBy = o
  /\ \A o1, o2 \in Ops :
       (o1 # o2 /\ sessions.op[o1].client # 0)
         => sessions.op[o1].client # sessions.op[o2].client
  /\ \A k \in 1..Len(sessions.connections) :
       /\ sessions.connections[k].usedBy \subseteq {sessions.connections[k].openedBy}
       /\ sessions.connections[k].closedBy \subseteq {sessions.connections[k].openedBy}
       /\ sessions.connections[k].state = "closed"
            <=> sessions.connections[k].closedBy # {}

C16_Witness ==
  \E k1, k2 \in 1..Len(sessions.connections) :
    /\ k1 # k2
    /\ sessions.connections[k1].tab = sessions.connections[k2].tab
    /\ sessions.connections[k1].openedBy # sessions.connections[k2].openedBy
    /\ sessions.connections[k1].state = "closed"
    /\ sessions.connections[k2].state = "open"
    /\ sessions.connections[k2].usedBy # {}
    /\ sessions.op[sessions.connections[k2].openedBy].pc = "finally"

\* C17 as stated: every call that has started settles, whatever the page does
C17_EveryCallSettles ==
  [](pc \notin {"idle", "done"} => <>(pc = "done"))

C19_VisibleNodeResolvesWait ==
  /\ [][(pc = "wait" /\ pc' # "wait" /\ page' = page
           /\ validCSS(selector) /\ findElement(page, selector).visible)
          => /\ wait'.result = "resolved" /\ wait'.exists /\ wait'.visible
             /\ wait'.observer = "none"]_vars
  /\ [][(PageChangesObserved /\ findElement(page', selector).visible)
          => /\ wait'.result = "resolved" /\ wait'.exists /\ wait'.visible
             /\ wait'.observer = "disconnected" /\ ~wait'.timedOut]_vars
  /\ [][(pc = "waiting" /\ wait'.timedOut /\ findElement(page, selector).visible)
          => wait'.result = "resolved" /\ wait'.exists /\ wait'.visible]_vars
  /\ [](wait.result = "resolved" => wait.exists)

C19_Witness ==
  /\ mutations = 1
  /\ wait.result = "resolved"
  /\ wait.exists /\ wait.visible
  /\ wait.observer = "disconnected"
  /\ ~wait.timedOut
  /\ ~wait.hiddenOnly

\* C21: when the DOM domain is absent or its enabling threw, the callback of withTab
\* still runs, and a click on a visible node (on a page that does not change, the
\* protocol otherwise holding) completes with success through the bounding-rectangle
\* coordinates or the simulated sequence
C21_DomEnableFailureIsSoft ==
  (/\ pc = "done" /\ call.tool = "click_element" /\ ~caps.dom
   /\ protocolHeld /\ mutations = 0
   /\ looksLikeSelector(call.selector) /\ validateSelector(call.selector) = "valid"
   /\ firstHitVisible(page, call.selector))
    => /\ wait.result = "resolved"
       /\ coordResult.method \in {"JavaScript_getBoundingClientRect", "all_methods_failed"}
       /\ toolResult.success

C21_Witness ==
  /\ pc = "done" /\ call.tool = "click_element" /\ ~caps.dom
  /\ mutations = 0
  /\ firstHitVisible(page, call.selector)
  /\ coordResult.method = "JavaScript_getBoundingClientRect"
  /\ eventTypes = trustedPair
  /\ toolResult.success

\* C22 as stated: when the form selector selects no node, analyzeForm signals
\* not-found by its return value and does not throw
C22_AnalyzeFormReturnsNotFound ==
  (call.tool = "analyze_form" /\ formData.state = "null") => outcome.state # "threw"

\* C22 amended: when the form selector selects no node, analyzeFormInternal returns
\* null without throwing; analyzeForm turns that null into the thrown error "Form not
\* found with selector", and the analyze_form tool returns success:false with that
\* error
C22_InternalReturnsNullPublicThrows ==
  /\ (pc = "analyzed" /\ mutations = 0 /\ ~formFound(page, call.selector))
       => (formData.state = "null" /\ outcome.state = "pending")
  /\ (call.tool = "analyze_form" /\ formData.state = "null"
        /\ pc \in {"finally", "handler", "done"})
       => (outcome.state = "threw" /\ outcome.error = "Form not found with selector")
  /\ (call.tool = "analyze_form" /\ formData.state = "null" /\ pc = "done")
       => (toolResult.state = "returned" /\ ~toolResult.success
           /\ toolResult.error = "Form not found with selector")

C22_Witness ==
  /\ pc = "done" /\ call.tool = "analyze_form" /\ call.selector = "#missing"
  /\ mutations = 0
  /\ formData.state = "null"
  /\ outcome.state = "threw"
  /\ ~toolResult.success

\* C23 as stated (on a page that does not change during the call, the protocol
\* holding): element_exists on a selector that selects no node returns a result that
\* carries exists:false and visible:false, and neither the controller nor the tool
\* reports an error
C23_AbsentNodeReportedAbsent ==
  (/\ pc = "done" /\ call.tool = "element_exists" /\ protocolHeld /\ mutations = 0
   /\ validateSelector(call.selector) = "valid" /\ validCSS(call.selector)
   /\ querySelectorAll(page, call.selector) = {})
    => /\ outcome.state = "returned" /\ outcome.error = ""
       /\ toolResult.success /\ toolResult.error = ""
       /\ toolResult.defined = {"exists", "visible"}
       /\ ~toolResult.exists /\ ~toolResult.visible

\* a control that is pressed: a button, a submit or button input, a node of role
\* button
buttonLike(n) ==
  \/ n.tag = "button"
  \/ n.tag = "input" /\ n.type \in {"submit", "button"}
  \/ n.role = "button"

\* the node of the document with the given nid is a button-like control
isButton(document, nid) ==
  \E i \in 1..Len(document) : document[i].nid = nid /\ buttonLike(document[i])

\* the page shows a search form: a visible search box and a visible button
searchForm(document) ==
  /\ \E i \in 1..Len(document) :
       /\ document[i].tag = "input" /\ isVisible(document[i])
       /\ attrContainsI(document[i].placeholder, "search")
  /\ \E i \in 1..Len(document) : buttonLike(document[i]) /\ isVisible(document[i])

\* C24 as stated (on a page that does not change during the call, the protocol
\* holding): click_element with the hint "search button", on a page that shows a
\* search box and a button, succeeds and delivers its input to a button-like
\* control, not to a text input
C24_SearchButtonClicksButton ==
  (/\ pc = "done" /\ call.tool = "click_element" /\ call.selector = "search button"
   /\ protocolHeld /\ mutations = 0
   /\ searchForm(page))
    => /\ toolResult.success
       /\ events # <<>>
       /\ \A k \in 1..Len(events) : isButton(page, events[k].target)

\* twice the area a quad encloses (the shoelace sum)
twiceArea(quad) ==
  LET sum == (quad[1] * quad[4] - quad[3] * quad[2])
             + (quad[3] * quad[6] - quad[5] * quad[4])
             + (quad[5] * quad[8] - quad[7] * quad[6])
             + (quad[7] * quad[2] - quad[1] * quad[8])
  IN IF sum < 0 THEN -sum ELSE sum

\* the read answered with geometry that encloses an area
hasArea(answer) ==
  answer.kind = "quad" /\ twiceArea(answer.quad) > 0

rectHasArea(rect) ==
  rect.kind = "rect" /\ rect.width > 0 /\ rect.height > 0

located ==
  pc = "act" /\ coordResult # NoCoord

\* C25 as stated: the methods are tried in the order content quads, box model,
\* bounding rectangle, a later one only when the one before threw, answered nothing
\* or answered zero-area geometry, and no method returns a coordinate from zero-area
\* geometry
C25_OrderedAndNeverZeroArea ==
  located =>
    /\ coordResult.method = "DOM.getBoxModel" => ~hasArea(geometry.quads)
    /\ coordResult.method = "JavaScript_getBoundingClientRect"
         => (~hasArea(geometry.quads) /\ ~hasArea(geometry.box))
    /\ coordResult.method = "all_methods_failed"
         => (~hasArea(geometry.quads) /\ ~hasArea(geometry.box)
             /\ ~rectHasArea(geometry.rect))
    /\ coordResult.method = "DOM.getContentQuads" => hasArea(geometry.quads)
    /\ coordResult.method = "DOM.getBoxModel" => hasArea(geometry.box)
    /\ coordResult.method = "JavaScript_getBoundingClientRect"
         => rectHasArea(geometry.rect)
    /\ coordResult.success <=> coordResult.method # "all_methods_failed"

\* Math.round(k / 4) for an integer k
roundQuarter(k) ==
  (k + 2) \div 4

\* the rounded averages of the four corner x values and of the four corner y values
fourCornerPoint(quad) ==
  [x |-> roundQuarter(quad[1] + quad[3] + quad[5] + quad[7]),
   y |-> roundQuarter(quad[2] + quad[4] + quad[6] + quad[8])]

\* opposite sides are parallel and equal: the diagonals halve each other
parallelogram(quad) ==
  /\ quad[1] + quad[5] = quad[3] + quad[7]
  /\ quad[2] + quad[6] = quad[4] + quad[8]

\* the quad a successful node-tree method computed its coordinate from
usedQuad ==
  IF coordResult.method = "DOM.getContentQuads" THEN geometry.quads.quad
  ELSE geometry.box.quad

fromQuad ==
  located /\ coordResult.method \in {"DOM.getContentQuads", "DOM.getBoxModel"}

\* C26 as stated: the coordinate from a content quad or a content box is the
\* rounded average of the four corner x values and of the four corner y values,
\* for every quad
C26_AverageOfFourCorners ==
  fromQuad => (/\ coordResult.x = fourCornerPoint(usedQuad).x
               /\ coordResult.y = fourCornerPoint(usedQuad).y)

\* C26 amended: the coordinate is the rounded midpoint of the first and third
\* corners (one diagonal); it equals the rounded four-corner average whenever the
\* quad is a parallelogram, rectangles included
C26_DiagonalMidpoint ==
  fromQuad =>
    /\ coordResult.x = roundHalf(usedQuad[1] + usedQuad[5])
    /\ coordResult.y = roundHalf(usedQuad[2] + usedQuad[6])
    /\ parallelogram(usedQuad)
         => (/\ coordResult.x = fourCornerPoint(usedQuad).x
             /\ coordResult.y = fourCornerPoint(usedQuad).y)

C26_Witness ==
  /\ fromQuad
  /\ coordResult.method = "DOM.getContentQuads"
  /\ ~parallelogram(usedQuad)
  /\ twiceArea(usedQuad) > 0
  /\ coordResult.x = roundHalf(usedQuad[1] + usedQuad[5])
  /\ coordResult.x # fourCornerPoint(usedQuad).x

\* the hint is selector-like: it carries one of the marks . # [ : or a combinator
selectorLike(hint) ==
  marked(hint) \/ includes(hint, ">")

\* the call is past the resolution of its selector
pastDiscovery ==
  /\ call.tool \in {"click_element", "type_text"}
  /\ pc \in {"validate", "wait", "waiting", "locate", "act", "release", "clear",
              "insertText", "fallback", "typeFallback", "commit"}

\* C27 as stated: clickElement and typeText use a selector-like hint unchanged as
\* the selector, and substitute no discovered selector for it, whether or not the
\* node is visible
C27_SelectorLikeHintUnchanged ==
  (pastDiscovery /\ selectorLike(call.selector) /\ validCSS(call.selector))
    => selector = call.selector

\* index of the node on which the text-matching script returned (lines 469-515): the
\* first button whose text or value holds the hint, else the first such link, else
\* the first input whose placeholder, aria-label or title holds it; 0 when none
textHit(document, selectorHint) ==
  LET searchText == toLowerCase(selectorHint)
      buttons == {i \in 1..Len(document) :
                    /\ \/ document[i].tag = "button"
                       \/ document[i].tag = "a" /\ hasClass(document[i], "btn")
                       \/ document[i].tag = "a" /\ hasClass(document[i], "button")
                       \/ document[i].role = "button"
                    /\ \/ includesLower(document[i].text, searchText)
                       \/ includesLower(elementValue(document[i]), searchText)}
      links == {i \in 1..Len(document) :
                    /\ document[i].tag = "a"
                    /\ includesLower(document[i].text, searchText)}
      inputs == {i \in 1..Len(document) :
                    /\ document[i].tag \in {"input", "textarea"}
                    /\ \/ includesLower(document[i].placeholder, searchText)
                       \/ includesLower(document[i].ariaLabel, searchText)
                       \/ includesLower(document[i].title, searchText)}
  IN firstOrZero(IF buttons # {} THEN buttons ELSE IF links # {} THEN links ELSE inputs)

\* discovery returned the result of the text-matching script
textMatched ==
  /\ Resolved
  /\ discoveryInfo # null
  /\ discoveryInfo.confidence = "text-match"
  /\ Len(discoveryInfo.description) = 3

\* C28 as stated: the selector returned for a text match, given to
\* document.querySelector on the same page, selects the node whose text or
\* attribute matched the hint
C28_TextMatchSelectsItsNode ==
  textMatched
    => /\ validCSS(discoveryInfo.selector)
       /\ querySelector(page, discoveryInfo.selector) = textHit(page, call.selector)

\* C29 as stated: a click_element or type_text result with success:true implies that
\* the call delivered input to a node: some event was dispatched, and every event
\* of the call reached a node
C29_SuccessImpliesDelivery ==
  (/\ pc = "done" /\ call.tool \in {"click_element", "type_text"}
   /\ toolResult.success)
    => /\ events # <<>>
       /\ \A k \in 1..Len(events) : events[k].target # 0

\* the visibility wait ended at its timeout on a node that exists and is not visible
waitEndedHidden ==
  /\ wait.result = "resolved" /\ wait.timedOut
  /\ wait.exists /\ ~wait.visible

\* C30 as stated (on a page that does not change during the call): when the wait of
\* clickElement or typeText ends at the timeout with exists true and visible false,
\* no press, event or text is dispatched and the operation does not report success
C30_NoInputAfterHiddenWait ==
  (call.tool \in {"click_element", "type_text"} /\ waitEndedHidden /\ mutations = 0)
    => /\ events = <<>>
       /\ ~(pc = "done" /\ toolResult.success)

(***************************************************************************)
(* C31: the caller's string and the expressions evaluated in the page      *)
(***************************************************************************)
\* C31 as stated: in every element operation, an expression evaluated in the page
\* that interpolates the caller's selector or hint comes after validateSelector has
\* let that string through
C31_ValidatedBeforeInterpolated ==
  \A k \in 1..Len(trace) :
    (trace[k].op = "evaluate" /\ trace[k].arg # "")
      => \E j \in 1..(k - 1) : trace[j].op = "validate" /\ trace[j].arg = trace[k].arg

(***************************************************************************)
(* C32: the node the wait found and the node the trusted input reaches     *)
(***************************************************************************)
\* C32 as stated: whatever the page does between the stages of one clickElement
\* call, the trusted press and release land on the node the wait stage found
C32_InputReachesWaitedNode ==
  (call.tool = "click_element" /\ wait.result = "resolved")
    => \A k \in 1..Len(events) :
         events[k].type \in {"mousePressed", "mouseReleased"}
           => events[k].target = wait.nid

(***************************************************************************)
(* C33: the connections one operation holds                                *)
(***************************************************************************)
\* the connections of the call that are open after the first k entries of its trace
openAfter(k) ==
  Cardinality({j \in 1..k : trace[j].op = "connect"})
    - Cardinality({j \in 1..k : trace[j].op = "close"})

\* C33: at every point of an element operation at most one connection opened by it
\* is open, and validateSelector, whose probe names a null tab id, opens none
C33_AtMostOneConnection ==
  /\ \A k \in 0..Len(trace) : openAfter(k) \in {0, 1}
  /\ \A k \in 1..Len(trace) :
       trace[k].by = "validateSelector" => trace[k].op = "validate"
  /\ (client = "open") = (openAfter(Len(trace)) = 1)

\* a click whose selector passed validateSelector inside withTab, the connection of
\* the call being the only one open
C33_Witness ==
  /\ call.tool = "click_element"
  /\ pc = "wait"
  /\ client = "open"
  /\ openAfter(Len(trace)) = 1
  /\ trace[Len(trace)].op = "validate"

(***************************************************************************)
(* C34: what discovery still asks of the page after a strategy succeeded   *)
(***************************************************************************)
\* the positions of the trace whose query was issued by the given strategy
queriesBy(strategy) ==
  {k \in 1..Len(trace) : trace[k].op = "evaluate" /\ trace[k].by = strategy}

\* C34 as stated: once a strategy of discoverBestSelector has succeeded, no page
\* query of a later strategy is issued in that resolution
C34_NoQueryAfterSuccess ==
  Resolved =>
    /\ discoveryInfo.confidence = "exact"
         => queriesBy("text") \cup queriesBy("attribute") \cup queriesBy("pattern") = {}
    /\ textContentMatch(page, call.selector) # <<>> => queriesBy("attribute") = {}

\* C34: the result is that of the earliest strategy that succeeded, but the later
\* strategies are queried all the same: a hint of no category has the text script
\* and at least one attribute selector evaluated, a hint of a category has at
\* least one of its patterns evaluated, whether or not the literal test succeeded;
\* only the loops over attribute selectors and over patterns stop at their first hit
C34_FirstSuccessWinsLaterStillQueried ==
  Resolved =>
    LET chosen == determine(call.selector, call.elementType) IN
    /\ (queriesBy("exact") # {}) = looksLikeCss(call.selector)
    /\ (discoveryInfo.confidence = "exact")
         = (looksLikeCss(call.selector) /\ checkElementExists(page, call.selector))
    /\ (Len(chosen.patterns) = 0 /\ call.selector # "")
         => (queriesBy("text") # {} /\ queriesBy("attribute") # {})
    /\ Len(chosen.patterns) > 0 => queriesBy("pattern") # {}
    /\ \A s \in {"attribute", "pattern"} : \A k \in queriesBy(s) :
         checkElementExists(page, trace[k].selector)
           => \A j \in queriesBy(s) : j <= k

\* a literal selector that exists, after which the patterns of its category were
\* queried as well
C34_Witness ==
  /\ Resolved
  /\ discoveryInfo.confidence = "exact"
  /\ queriesBy("pattern") # {}

(***************************************************************************)
(* C35: what a result of discoverBestSelector guarantees                   *)
(***************************************************************************)
\* C35 as stated: every non-null result of discoverBestSelector has provenance
\* exact, text-match or pattern-match and a selector that selects at least one
\* node of the page the resolution queried
C35_ResultSelectsANode ==
  (Resolved /\ discoveryInfo # null)
    => /\ discoveryInfo.confidence \in {"exact", "text-match", "pattern-match"}
       /\ validCSS(discoveryInfo.selector)
       /\ querySelectorAll(page, discoveryInfo.selector) # {}

(***************************************************************************)
(* C36: what the element_exists tool makes of a failed evaluation          *)
(***************************************************************************)
\* C36 as stated: the element_exists tool reports success:true only when the result
\* of elementExists has success:true; a result with success:false is handed to the
\* caller as success:false with its error message
C36_ToolSuccessFollowsController ==
  (pc = "done" /\ call.tool = "element_exists" /\ outcome.state = "returned")
    => /\ toolResult.success => outcome.success
       /\ ~outcome.success => (~toolResult.success /\ toolResult.error = outcome.error)

(***************************************************************************)
(* C37: the elementType argument of discoverBestSelector                   *)
(***************************************************************************)
\* C37: for the same hint and the same page, discoverBestSelector returns the same
\* selector, provenance and description whatever elementType it is given ('button'
\* from clickElement, 'input' from typeText, none)
C37_ResultIgnoresElementType ==
  Resolved
    => \A elementType \in {"button", "input", ""} :
         discoverBestSelector(page, call.selector, elementType) = discoveryInfo

\* a resolution through the patterns, called with elementType 'input', whose result
\* names the category of the hint instead
C37_Witness ==
  /\ Resolved
  /\ call.elementType = "input"
  /\ discoveryInfo.confidence = "pattern-match"
  /\ discoveryInfo.elementType = "submit"

(***************************************************************************)
(* C38: the category of a hint                                             *)
(***************************************************************************)
\* the categories in the order the claim gives them, and the keywords of each
CategoryOrder ==
  <<"submit", "search", "login", "password", "button", "link", "input">>

Keywords(category) ==
  CASE category = "submit" -> {"submit", "send", "confirm"}
    [] category = "search" -> {"search", "find"}
    [] category = "login" -> {"login", "email", "username"}
    [] category = "password" -> {"password", "pass"}
    [] category = "button" -> {"button", "btn", "click"}
    [] category = "link" -> {"link"}
    [] category = "input" -> {"input", "field", "text"}

\* the positions in CategoryOrder of the categories one of whose keywords occurs in
\* the lower-cased hint
named(hint) ==
  LET lower == toLowerCase(hint) IN
  {k \in 1..Len(CategoryOrder) : \E w \in Keywords(CategoryOrder[k]) : includes(lower, w)}

\* C38: a hint is assigned the earliest category, in the order submit, search,
\* login, password, button, link, input, one of whose keywords occurs in the
\* lower-cased hint, and none when there is no such category; the text-content
\* script is evaluated only for a hint of no category
C38_EarliestCategoryWins ==
  Resolved
    => /\ classify(call.selector)
            = IF named(call.selector) = {} THEN "none"
              ELSE CategoryOrder[firstOf(named(call.selector))]
       /\ SELECTOR_PATTERNS(classify(call.selector))
            = determine(call.selector, call.elementType).patterns
       /\ queriesBy("text") # {} => named(call.selector) = {}
       /\ (named(call.selector) = {} /\ call.selector # "") => queriesBy("text") # {}

\* a hint with keywords of two categories, resolved in the earlier one
C38_Witness ==
  /\ Resolved
  /\ Cardinality(named(call.selector)) >= 2
  /\ classify(call.selector) = CategoryOrder[firstOf(named(call.selector))]
  /\ discoveryInfo.confidence = "pattern-match"
  /\ discoveryInfo.elementType = classify(call.selector)

(***************************************************************************)
(* C39: the simulated click                                                *)
(***************************************************************************)
\* the positions of the trace at which the fallback script of clickElement ran on
\* a node
simulatedClicks ==
  {k \in 1..Len(trace) : trace[k].by = "clickElement fallback" /\ trace[k].ran # <<>>}

\* C39: on the simulated click path the node is first scrolled into view and then
\* receives exactly pointerover, pointerdown, mousedown, mouseup, click, pointerup,
\* in that order, each bubbling and all on the one node, with nothing dispatched in
\* between; they are the last input of the call
C39_SimulatedClickSequence ==
  \A k \in simulatedClicks :
    LET ran == trace[k].ran
        n == Len(events) - 6 IN
    /\ Len(ran) = 7
    /\ ran[1].do = "scrollIntoView"
    /\ \A j \in 1..6 :
         /\ ran[j + 1].do = "dispatchEvent"
         /\ ran[j + 1].bubbles
         /\ ran[j + 1].type = simulatedSequence[j]
    /\ n >= 0
    /\ \A j \in 1..6 :
         /\ events[n + j].type = simulatedSequence[j]
         /\ events[n + j].target = events[n + 1].target
         /\ events[n + j].target # 0

\* a click that settled through the simulated sequence on a node
C39_Witness ==
  /\ pc = "done"
  /\ call.tool = "click_element"
  /\ simulatedClicks # {}
  /\ toolResult.success
  /\ Len(events) = 6

(***************************************************************************)
(* C40: the controller object across element operations                    *)
(***************************************************************************)
\* C40: whatever an element operation does, and wherever it stands, the controller
\* still has the fields the constructor gave it with their values: client is null,
\* isConnected is false, the configuration is the one passed in, and no field has
\* been added; the connection of the call lives in the call only
C40_ControllerFieldsUnchanged ==
  /\ DOMAIN controller = {"client", "isConnected", "configuration"}
  /\ controller.client = "null"
  /\ controller.isConnected = FALSE
  /\ controller.configuration = "config"

\* an element operation that connected, succeeded and returned
C40_Witness ==
  /\ pc = "done"
  /\ call.tool \in ElementTools
  /\ toolResult.success
  /\ \E k \in 1..Len(trace) : trace[k].op = "connect" /\ trace[k].by = "withTab"
  /\ client = "closed"
  /\ controller = Constructed

==============================================================================
